---- MODULE Spec2Model ----
(***************************************************************************)
(* A model of the shortlist mail watcher: the match-state store            *)
(* (app/state_utils.py, app/runner.py), the poll loop runner.run and the    *)
(* manual /api/check-email request that share the state file, and the      *)
(* in-memory log stream (app/log_stream.py).                               *)
(*                                                                         *)
(* The specifications share the variables:                                 *)
(*   Spec       the poll loop and check-email requests, interleaved at the *)
(*              granularity of their external calls and file operations;   *)
(*   SpecSolo   the same steps with one of the two pipelines running alone *)
(*              over a state file that may already hold history;           *)
(*   SpecLive   SpecSolo with the loop's sleeps returning;                 *)
(*   SpecStop   SpecSolo with the stop flag and KeyboardInterrupt;         *)
(*   SpecApply  update_state_with_match applied to bounded inputs;         *)
(*   SpecLog    concurrent log() writers;                                  *)
(*   SpecView   the writers and a log viewer polling get_recent;           *)
(*   SpecRecent get_recent applied to bounded inputs;                      *)
(*   SpecFuse   match_utils.best applied to bounded inputs;                *)
(*   SpecClassify  the classifiers' decision on the signals found;         *)
(*   SpecText   the name, code and address comparisons on bounded strings; *)
(*   SpecOverall  the overall verdict of a message in the two pipelines;   *)
(*   SpecProfile  the loop's profile step and profile edits, interleaved;  *)
(*   SpecStart  concurrent requests to start the runner;                   *)
(*   SpecScan   parse_email_attachments over a message's attachments;      *)
(*   SpecFuseAny  best() given arbitrary strings;                          *)
(*   SpecMatch  the classifiers from the profile and the scanned unit on;  *)
(*   SpecSenders  a pipeline over messages of listed and unlisted senders. *)
(***************************************************************************)
EXTENDS Integers, Sequences, FiniteSets, TLC

VARIABLES
    \* ---- the shared world of Spec
    stateFile,      \* content of state.json
    recordFiles,    \* data/match_*.json artifacts written, per message id
    calendarCalls,  \* invocations of create_calendar_event, per message id
    now,            \* logical clock sampled by time.time()
    \* ---- one pipeline run each: the poll loop and a check-email request
    pc,             \* position of each pipeline
    st,             \* each pipeline's in-memory state dict
    mid,            \* each pipeline's local mid
    verdict,        \* each pipeline's local overall_match_type
    attach,         \* how the iteration's get_email_attachments call ended
    err,            \* the exception the loop caught last ("none" when none)
    runs,           \* number of check-email requests served so far
    sleeping,       \* seconds of the time.sleep call the loop is in, else 0
    \* ---- SpecApply
    afile,          \* the content of the state file load_state is called on
    astate,         \* what load_state returned, then the dict apply works on
    aprev,          \* its value before the last call
    aargs,          \* the arguments of the last call
    acount,         \* number of apply calls so far
    aloaded,        \* whether load_state has returned
    amode,          \* the category all calls use, or "any"
    \* ---- SpecLog
    buffer,         \* _buffer: the deque of (id, line)
    next_id,        \* _next_id
    lock,           \* holder of _lock, or "free"
    lpc,            \* position of each log() caller
    lreg,           \* the value of _next_id a caller read for _next_id += 1
    lcalls,         \* number of log() calls started
    \* ---- SpecView, SpecRecent: callers of get_recent
    vlimit,         \* the limit the log viewer asks for
    vsince,         \* the viewer's sinceId: absent, or the last id it received
    vgot,           \* the ids the viewer has received, in order of receipt
    vpolls,         \* number of polls the viewer has made
    gargs,          \* the arguments of the last get_recent call
    gres,           \* what the last get_recent call returned
    \* ---- SpecStop
    runner_stop,    \* whether the Event _runner_stop is set
    \* ---- SpecFuse
    fargs,          \* the arguments of the last best() call
    fres,           \* what it returned
    \* ---- SpecClassify
    cargs,          \* a classifier and the signals it found
    cres,           \* the verdict it returned ("" before the call)
    \* ---- SpecText
    targs,          \* a comparison and the two strings it is given
    tres,           \* Nothing before the call, then Some(its result)
    \* ---- SpecOverall
    oargs,          \* a pipeline and a message's three verdicts
    ores,           \* its overall_match_type ("" before it is computed)
    \* ---- SpecProfile
    profileFile,    \* content of profile.json
    profile,        \* the profile dict run() holds
    pbefore,        \* per key, the value the latest profile edit replaced
    psaves,         \* calls of save_profile by the loop so far
    pmsgs,          \* messages the loop has taken through step 7 so far
    pedits,         \* POST /api/profile requests served so far
    \* ---- SpecStart
    runner_thread,  \* the global _runner_thread (None, or a thread)
    thread,         \* each Thread object: unused, new, alive or dead
    spc,            \* position of each POST /api/runner/start request
    \* ---- SpecScan
    atts,           \* what get_email_attachments returned for the message
    results,        \* the results dict of parse_email_attachments
    ai,             \* attachments the loop has gone through
    apc,            \* position of the call: start, loop, returned or caught
    \* ---- SpecMatch
    margs,          \* a classifier, the profile and the unit it is given
    mres,           \* the verdict it returned ("" before the call)
    mlists,         \* rows in each category list of the table's scan result
    \* ---- SpecSenders
    listed          \* per message, whether its sender is a whitelisted one

pipeVars == <<stateFile, recordFiles, calendarCalls, now, pc, st, mid,
              verdict, attach, err, runs, sleeping>>
applyVars == <<afile, astate, aprev, aargs, acount, aloaded, amode>>
logVars == <<buffer, next_id, lock, lpc, lreg, lcalls>>
viewVars == <<vlimit, vsince, vgot, vpolls, gargs, gres>>
stopVars == <<runner_stop>>
fuseVars == <<fargs, fres>>
classVars == <<cargs, cres>>
textVars == <<targs, tres>>
overallVars == <<oargs, ores>>
pureVars == <<fuseVars, classVars, textVars, overallVars>>
profVars == <<profileFile, profile, pbefore, psaves, pmsgs, pedits>>
startVars == <<runner_thread, thread, spc>>
scanVars == <<atts, results, ai, apc>>
matchVars == <<margs, mres, mlists>>
senderVars == <<listed>>
extraVars == <<scanVars, matchVars, senderVars>>
coreVars == <<pipeVars, applyVars, logVars, viewVars, stopVars, pureVars, profVars,
              startVars>>
vars == <<coreVars, extraVars>>

\* what the steps of each part of the model leave alone
notPipeVars == <<applyVars, logVars, viewVars, stopVars, pureVars, profVars,
                 startVars, extraVars>>
notApplyVars == <<pipeVars, logVars, viewVars, stopVars, pureVars, profVars,
                  startVars, extraVars>>
notLogVars == <<pipeVars, applyVars, viewVars, stopVars, pureVars, profVars,
                startVars, extraVars>>
notViewVars == <<pipeVars, applyVars, logVars, stopVars, pureVars, profVars,
                 startVars, extraVars>>
notPureVars == <<pipeVars, applyVars, logVars, viewVars, stopVars, profVars,
                 startVars, extraVars>>
notProfVars == <<pipeVars, applyVars, logVars, viewVars, stopVars, pureVars,
                 startVars, extraVars>>
notStartVars == <<pipeVars, applyVars, logVars, viewVars, stopVars, pureVars,
                  profVars, extraVars>>
notScanVars == <<coreVars, matchVars, senderVars>>
notMatchVars == <<coreVars, scanVars, senderVars>>

-----------------------------------------------------------------------------
(* Bounds of the model *)

\* message ids the inbox can show
MaxMid == 2
\* the logical clock stops new processing attempts once it reaches this
MaxClock == 2
\* check-email requests served
MaxRuns == 1
\* apply calls beyond the cap when every call uses one category
MaxExtra == 2
\* apply calls when the category varies
MaxMixed == 3
\* log() calls started
MaxLogCalls == 3
\* polls of the log viewer
MaxPolls == 2
\* arguments of a best() call
MaxArgs == 3
\* messages the loop takes through its profile step
MaxMessages == 3
\* profile edits served
MaxEdits == 1
\* Thread objects the start requests may create
MaxThreads == 3

Min(a, b) == IF a < b THEN a ELSE b

-----------------------------------------------------------------------------
(* Verdicts: app/match_utils.py *)

None == 0

MATCH_HIERARCHY == <<"CONFIRMED_MATCH", "POSSIBILITY", "PARTIAL_MATCH", "NO_MATCH">>

Verdicts == {MATCH_HIERARCHY[i] : i \in 1..Len(MATCH_HIERARCHY)}

\* a faulty rank that orders the hierarchy backwards, to show that C16 tells
\* the difference
RankReversed(match_type) ==
    IF match_type \in Verdicts
    THEN Len(MATCH_HIERARCHY)
           - (CHOOSE i \in 1..Len(MATCH_HIERARCHY) : MATCH_HIERARCHY[i] = match_type)
    ELSE Len(MATCH_HIERARCHY)

\* rank(match_type): index in the hierarchy, len(hierarchy) for an unknown type
rank(match_type) ==
    IF match_type \in Verdicts
    THEN (CHOOSE i \in 1..Len(MATCH_HIERARCHY) : MATCH_HIERARCHY[i] = match_type) - 1
    ELSE Len(MATCH_HIERARCHY)

\* min(candidates, key=rank): the first element of the sequence with least rank
MinByRank(cands) ==
    LET least == CHOOSE r \in {rank(cands[i]) : i \in 1..Len(cands)} :
                     \A i \in 1..Len(cands) : r <= rank(cands[i])
        first == CHOOSE i \in 1..Len(cands) :
                     /\ rank(cands[i]) = least
                     /\ \A j \in 1..(i - 1) : rank(cands[j]) # least
    IN  cands[first]

\* a faulty fuse that returns its first non-falsy argument, to show that C17
\* tells the difference
FirstGiven(match_types) ==
    LET candidates == SelectSeq(match_types, LAMBDA m : m # "")
    IN  IF candidates = <<>> THEN "NO_MATCH" ELSE candidates[1]

\* best(*match_types): falsy arguments ("" stands for them) are dropped
best(match_types) ==
    LET candidates == SelectSeq(match_types, LAMBDA m : m # "")
    IN  IF candidates = <<>> THEN "NO_MATCH" ELSE MinByRank(candidates)

-----------------------------------------------------------------------------
(* The state store: app/state_utils.py, app/runner.py *)

\* the retention cap of update_state_with_match
Cap == 100

CategoryKeys == <<"confirmed_matches", "possibilities", "partial_matches">>

StateKeys == {"last_message_id"} \cup {CategoryKeys[i] : i \in 1..3}

\* a JSON object read from or written to state.json: keys says which of the
\* state's keys the dict has; a field whose key is absent holds a placeholder
Dict(keys, last, c, p, q) ==
    [keys |-> keys, last_message_id |-> last,
     confirmed_matches |-> c, possibilities |-> p, partial_matches |-> q]

\* the fresh state load_state falls back to
DefaultState == Dict(StateKeys, None, <<>>, <<>>, <<>>)

\* "{}": valid JSON that is no Processing State
EmptyObject == Dict({}, None, <<>>, <<>>, <<>>)

Usable(s) == s.keys = StateKeys

\* state.get("last_message_id")
GetLast(s) == IF "last_message_id" \in s.keys THEN s.last_message_id ELSE None

\* file contents: no file, bytes json.loads rejects, or a JSON object
Absent == [kind |-> "absent", doc |-> EmptyObject]
Garbage == [kind |-> "garbage", doc |-> EmptyObject]
Json(d) == [kind |-> "json", doc |-> d]

\* Path.write_text opens the file for writing, which empties it, before it
\* writes: until the write completes json.loads rejects the content.  doc
\* remembers the object the truncation destroyed; no operation of the program
\* reads it, it is history for stating what a save may lose
Truncate(file) == [kind |-> "partial", doc |-> file.doc]
Partial == Truncate(Absent)

\* load_state: the default when the file does not exist or json.loads raises,
\* else whatever json.loads returned
load_state(file) ==
    IF file.kind = "json" THEN file.doc ELSE DefaultState

\* the entry update_state_with_match builds; the remaining fields are copied
\* from the message
MatchEntry(message_id, timestamp) ==
    [message_id |-> message_id, timestamp |-> timestamp]

\* a faulty trim that keeps the oldest n entries, to show that C7 tells the
\* difference
OldestN(s, n) == IF Len(s) > n THEN SubSeq(s, 1, n) ELSE s

\* state[key][-100:]
LastN(s, n) == IF Len(s) > n THEN SubSeq(s, Len(s) - n + 1, Len(s)) ELSE s

\* a faulty dispatch that files a POSSIBILITY under partial_matches, to show
\* that C9 tells the difference
CategoryMisfiled(match_type) ==
    CASE match_type = "CONFIRMED_MATCH" -> "confirmed_matches"
      [] match_type = "POSSIBILITY" -> "partial_matches"
      [] match_type = "PARTIAL_MATCH" -> "partial_matches"
      [] OTHER -> ""

\* the if / elif chain of update_state_with_match
CategoryOf(match_type) ==
    CASE match_type = "CONFIRMED_MATCH" -> "confirmed_matches"
      [] match_type = "POSSIBILITY" -> "possibilities"
      [] match_type = "PARTIAL_MATCH" -> "partial_matches"
      [] OTHER -> ""

\* the trimming loop over the three keys, from key number i on: a missing key
\* raises KeyError and leaves the later keys untrimmed
RECURSIVE TrimFrom(_, _)
TrimFrom(s, i) ==
    IF i > Len(CategoryKeys) THEN [state |-> s, raised |-> FALSE]
    ELSE IF CategoryKeys[i] \notin s.keys THEN [state |-> s, raised |-> TRUE]
    ELSE TrimFrom([s EXCEPT ![CategoryKeys[i]] = LastN(@, Cap)], i + 1)

\* update_state_with_match(state, email_data, match_type) at time timestamp:
\* the dict afterwards, and whether the call raised
update_state_with_match(s, message_id, match_type, timestamp) ==
    LET key == CategoryOf(match_type)
    IN  IF key = "" THEN TrimFrom(s, 1)
        ELSE IF key \notin s.keys THEN [state |-> s, raised |-> TRUE]
        ELSE TrimFrom([s EXCEPT ![key] = Append(@, MatchEntry(message_id, timestamp))], 1)

-----------------------------------------------------------------------------
(* SpecApply: load_state, then update_state_with_match, on bounded inputs *)

\* a category list holding n earlier entries, oldest first, all older than
\* any entry the calls below add
History(n, base) == [i \in 1..n |-> MatchEntry(base + i, i - n)]

\* the message id of call number k
MessageOfCall(k) == (k % MaxMid) + 1

\* state files holding a Processing State: each list empty, one short of the
\* cap, or full
StoredStates ==
    {Dict(StateKeys, last, History(nc, 1000), History(np, 2000), History(nq, 3000)) :
        last \in {None, 1}, nc \in {0, Cap - 1, Cap}, np \in {0, Cap}, nq \in {0, Cap}}

\* state files holding valid JSON that lacks keys of a Processing State
MalformedDocs ==
    {EmptyObject, Dict({"last_message_id"}, 1, <<>>, <<>>, <<>>),
     Dict(StateKeys \ {"partial_matches"}, 1, History(1, 1000), <<>>, <<>>)}

IdleApply ==
    /\ afile = Absent
    /\ astate = DefaultState
    /\ aprev = DefaultState
    /\ aargs = [message_id |-> None, match_type |-> "", timestamp |-> 0,
                raised |-> FALSE]
    /\ acount = 0
    /\ aloaded = FALSE
    /\ amode = "off"

\* every run of calls with one category starts from an absent file
InitApply ==
    /\ amode \in {"any"} \cup (Verdicts \ {"NO_MATCH"})
    /\ afile \in IF amode = "any"
                 THEN {Absent, Garbage, Partial}
                        \cup {Json(d) : d \in StoredStates \cup MalformedDocs}
                 ELSE {Absent}
    /\ astate = DefaultState
    /\ aprev = DefaultState
    /\ aargs = [message_id |-> None, match_type |-> "", timestamp |-> 0,
                raised |-> FALSE]
    /\ acount = 0
    /\ aloaded = FALSE

\* state = load_state(path)
LoadCall ==
    /\ amode # "off"
    /\ ~aloaded
    /\ astate' = load_state(afile)
    /\ aprev' = load_state(afile)
    /\ aloaded' = TRUE
    /\ UNCHANGED <<afile, aargs, acount, amode, notApplyVars>>

\* update_state_with_match(state, email_data, match_type); a call that raised
\* ends the run
ApplyCall ==
    /\ aloaded
    /\ ~aargs.raised
    /\ acount < (IF amode = "any" THEN MaxMixed ELSE Cap + MaxExtra)
    /\ \E v \in (IF amode = "any" THEN Verdicts ELSE {amode}) :
          LET r == update_state_with_match(astate, MessageOfCall(acount + 1),
                                           v, acount + 1)
          IN  /\ astate' = r.state
              /\ aargs' = [message_id |-> MessageOfCall(acount + 1),
                           match_type |-> v, timestamp |-> acount + 1,
                           raised |-> r.raised]
    /\ aprev' = astate
    /\ acount' = acount + 1
    /\ UNCHANGED <<afile, aloaded, amode, notApplyVars>>

-----------------------------------------------------------------------------
(* Spec, SpecSolo: the poll loop (runner.run) and check-email requests *)
(* (api.check_email)                                                   *)

Loop == "loop"
Request == "req"
Pipelines == {Loop, Request}

Mids == 1..MaxMid

\* a loop that looks at the attachments' verdict only when header and content
\* found nothing, to show that C25 tells the difference
OverallWithoutUpgrade(h, c, a) ==
    LET match_type == MinByRank(<<h, c>>)
    IN  IF match_type = "NO_MATCH" THEN a ELSE match_type

\* runner.run steps 3b and 5: the stronger of header and content verdict, then
\* the attachments' verdict when it is stronger still
RunnerOverall(h, c, a) ==
    LET match_type == MinByRank(<<h, c>>)
    IN  IF a # "NO_MATCH" /\ rank(a) < rank(match_type) THEN a ELSE match_type

\* api.check_email: the same decision written with best()
ApiOverall(h, c, a) ==
    LET match_type == best(<<h, c>>)
        upgraded == best(<<match_type, a>>)
    IN  IF a # "NO_MATCH" /\ upgraded # match_type THEN upgraded ELSE match_type

Overall(p, h, c, a) ==
    IF p = Loop THEN RunnerOverall(h, c, a) ELSE ApiOverall(h, c, a)

\* a faulty gate that forgets the watermark, to show that C4 tells the
\* difference
GateIgnoringWatermark(m, s) == m # None

\* runner.run: if mid and mid != state.get("last_message_id")
RunnerGate(m, s) == m # None /\ m # GetLast(s)

\* api.check_email: the two early returns before fetch_full
ApiGate(m, s) == ~(m = None) /\ ~(m = GetLast(s))

Gate(p, m, s) == IF p = Loop THEN RunnerGate(m, s) ELSE ApiGate(m, s)

\* a faulty test that asks for an event for every match, to show that C21
\* tells the difference
EventForAnyMatch(match_type) == match_type # "NO_MATCH"

\* should_create_calendar_event(email_data) reads email_data["match_type"],
\* which both callers set to overall_match_type
should_create_calendar_event(match_type) == match_type = "CONFIRMED_MATCH"

\* where a pipeline goes when an iteration ends normally, and when it raises:
\* the loop sleeps and polls again, a request returns its response
Rest(p) == IF p = Loop THEN "sleep" ELSE "idle"

\* a loop whose exceptions escape run(), to show that C14 tells the difference
Escapes(p) == IF p = Loop THEN "crashed" ELSE "idle"

Caught(p) == IF p = Loop THEN "backoff" ELSE "idle"

\* a request's locals die with the request
Locals(p, f, v) == IF p = Request /\ pc'[p] = "idle" THEN [f EXCEPT ![p] = v] ELSE f

\* the exception the loop's handler binds; a request answers 500 and ends
Raise(p, name) == IF p = Loop THEN [err EXCEPT ![p] = name] ELSE err

\* a pipeline that writes no record file, to show that C26 tells the
\* difference
NotCounted(bag, m) == bag

Bump(bag, m) == [bag EXCEPT ![m] = @ + 1]

\* poll_seconds = 30
poll_seconds == 30

\* the argument of the time.sleep call at a position of the loop:
\* time.sleep(poll_seconds) ends an iteration, the exception handler calls
\* time.sleep(min(300, poll_seconds * 2))
SleepOf(position) ==
    CASE position = "sleep" -> poll_seconds
      [] position = "backoff" -> Min(300, poll_seconds * 2)
      [] OTHER -> 0

InitPipe ==
    /\ stateFile \in {Absent, Garbage, Json(EmptyObject)}
    /\ recordFiles = [m \in Mids |-> 0]
    /\ calendarCalls = [m \in Mids |-> 0]
    /\ now = 0
    /\ pc = [p \in Pipelines |-> IF p = Loop THEN "start" ELSE "idle"]
    /\ st = [p \in Pipelines |-> DefaultState]
    /\ mid = [p \in Pipelines |-> None]
    /\ verdict = [p \in Pipelines |-> "NO_MATCH"]
    /\ attach = [p \in Pipelines |-> "none"]
    /\ err = [p \in Pipelines |-> "none"]
    /\ runs = 0
    /\ sleeping = 0

IdlePipe ==
    /\ stateFile = Absent
    /\ recordFiles = [m \in Mids |-> 0]
    /\ calendarCalls = [m \in Mids |-> 0]
    /\ now = 0
    /\ pc = [p \in Pipelines |-> "off"]
    /\ st = [p \in Pipelines |-> DefaultState]
    /\ mid = [p \in Pipelines |-> None]
    /\ verdict = [p \in Pipelines |-> "NO_MATCH"]
    /\ attach = [p \in Pipelines |-> "none"]
    /\ err = [p \in Pipelines |-> "none"]
    /\ runs = 0
    /\ sleeping = 0

\* one pipeline alone: the poll loop with no request ever made, or requests
\* with the loop not started; state.json is absent, unreadable, an empty
\* object, or what an earlier run saved after a confirmed match for message 1
InitSolo ==
    /\ stateFile \in {Absent, Garbage, Json(EmptyObject),
                      Json(Dict(StateKeys, 1, <<MatchEntry(1, 0)>>, <<>>, <<>>))}
    /\ recordFiles = [m \in Mids |-> IF GetLast(load_state(stateFile)) = m
                                      THEN 1 ELSE 0]
    /\ calendarCalls = recordFiles
    /\ now = 0
    /\ \E alone \in Pipelines :
          pc = [p \in Pipelines |->
                  IF p # alone THEN "off" ELSE IF p = Loop THEN "start" ELSE "idle"]
    /\ st = [p \in Pipelines |-> DefaultState]
    /\ mid = [p \in Pipelines |-> None]
    /\ verdict = [p \in Pipelines |-> "NO_MATCH"]
    /\ attach = [p \in Pipelines |-> "none"]
    /\ err = [p \in Pipelines |-> "none"]
    /\ runs = 0
    /\ sleeping = 0

\* run(): state = load_state()
LoopStart ==
    /\ pc[Loop] = "start"
    /\ st' = [st EXCEPT ![Loop] = load_state(stateFile)]
    /\ pc' = [pc EXCEPT ![Loop] = "poll"]
    /\ UNCHANGED <<notPipeVars, attach, stateFile, recordFiles, calendarCalls,
                   now, mid,
                   verdict, err, runs>>
    /\ sleeping' = SleepOf(pc'[Loop])

\* check_email(): state = load_state(STATE_FILE)
RequestStart ==
    /\ pc[Request] = "idle"
    /\ runs < MaxRuns
    /\ runs' = runs + 1
    /\ st' = [st EXCEPT ![Request] = load_state(stateFile)]
    /\ pc' = [pc EXCEPT ![Request] = "poll"]
    /\ err' = [err EXCEPT ![Request] = "none"]
    /\ attach' = [attach EXCEPT ![Request] = "none"]
    /\ UNCHANGED <<notPipeVars, stateFile, recordFiles, calendarCalls, now, mid,
                   verdict>>
    /\ sleeping' = SleepOf(pc'[Loop])

\* mid = newest_message_id(service) returns m, the id of whichever message is
\* the newest in the inbox at this moment (None for an empty inbox); then the
\* watermark gate
PollReturns(p, m) ==
    /\ pc[p] = "poll"
    /\ IF Gate(p, m, st[p])
       THEN /\ now < MaxClock
            /\ pc' = [pc EXCEPT ![p] = "fetch"]
            /\ mid' = [mid EXCEPT ![p] = m]
            /\ UNCHANGED st
       ELSE /\ pc' = [pc EXCEPT ![p] = Rest(p)]
            /\ mid' = Locals(p, [mid EXCEPT ![p] = m], None)
            /\ st' = Locals(p, st, DefaultState)
    /\ UNCHANGED <<notPipeVars, attach, stateFile, recordFiles, calendarCalls,
                   now, verdict, err, runs>>
    /\ sleeping' = SleepOf(pc'[Loop])

\* newest_message_id raises (the Gmail call fails)
PollRaises(p) ==
    /\ pc[p] = "poll"
    /\ pc' = [pc EXCEPT ![p] = Caught(p)]
    /\ err' = Raise(p, "newest_message_id")
    /\ st' = Locals(p, st, DefaultState)
    /\ UNCHANGED <<notPipeVars, attach, stateFile, recordFiles, calendarCalls,
                   now, verdict, mid, runs>>
    /\ sleeping' = SleepOf(pc'[Loop])

Poll(p) ==
    \/ \E m \in Mids \cup {None} : PollReturns(p, m)
    \/ PollRaises(p)

\* the attachments' overall_match_type: get_email_attachments catches what
\* the Gmail calls raise and returns [], and parse_email_attachments then
\* returns its initial results, whose overall_match_type is "NO_MATCH"
AttachmentVerdicts(got) == IF got = "failed" THEN {"NO_MATCH"} ELSE Verdicts

\* msg = fetch_full(service, mid) returns; the header and content verdicts of
\* the message; parse_email_attachments, whose fetch ends as got says;
\* overall_match_type; then, if it is not "NO_MATCH", log_match_to_data and
\* update_state_with_match
Fetched(p, got) ==
    /\ pc[p] = "fetch"
    /\ \E overall \in {Overall(p, h, c, a) :
                         h \in Verdicts, c \in Verdicts, a \in AttachmentVerdicts(got)} :
          LET r == update_state_with_match(st[p], mid[p], overall, now)
          IN  IF overall = "NO_MATCH"
              THEN /\ pc' = [pc EXCEPT ![p] = "watermark"]
                   /\ verdict' = [verdict EXCEPT ![p] = overall]
                   /\ UNCHANGED <<recordFiles, now, st, mid, err>>
              ELSE /\ recordFiles' = Bump(recordFiles, mid[p])
                   /\ now' = now + 1
                   /\ IF r.raised
                      THEN /\ pc' = [pc EXCEPT ![p] = Caught(p)]
                           /\ err' = Raise(p, "update_state_with_match")
                           /\ st' = Locals(p, [st EXCEPT ![p] = r.state],
                                           DefaultState)
                           /\ mid' = Locals(p, mid, None)
                           /\ UNCHANGED verdict
                      ELSE /\ pc' = [pc EXCEPT ![p] =
                                       IF should_create_calendar_event(overall)
                                       THEN "calendar" ELSE "watermark"]
                           /\ st' = [st EXCEPT ![p] = r.state]
                           /\ verdict' = [verdict EXCEPT ![p] = overall]
                           /\ UNCHANGED <<err, mid>>
    /\ attach' = [attach EXCEPT ![p] = got]
    /\ UNCHANGED <<notPipeVars, stateFile, calendarCalls, runs>>
    /\ sleeping' = SleepOf(pc'[Loop])

\* fetch_full raises (the Gmail call fails)
FetchRaises(p) ==
    /\ pc[p] = "fetch"
    /\ pc' = [pc EXCEPT ![p] = Caught(p)]
    /\ err' = Raise(p, "fetch_full")
    /\ st' = Locals(p, st, DefaultState)
    /\ mid' = Locals(p, mid, None)
    /\ UNCHANGED <<notPipeVars, stateFile, calendarCalls, runs, verdict,
                   recordFiles, now, attach>>
    /\ sleeping' = SleepOf(pc'[Loop])

Process(p) ==
    \/ \E got \in {"fetched", "failed"} : Fetched(p, got)
    \/ FetchRaises(p)

\* event_created = create_calendar_event(subject, body, mid): it returns
\* True or False, or get_calendar_service / extract_event_details raises
Calendar(p) ==
    /\ pc[p] = "calendar"
    /\ calendarCalls' = Bump(calendarCalls, mid[p])
    /\ \/ /\ pc' = [pc EXCEPT ![p] = "watermark"]
          /\ UNCHANGED <<st, err, mid, verdict>>
       \/ /\ pc' = [pc EXCEPT ![p] = Caught(p)]
          /\ err' = Raise(p, "create_calendar_event")
          /\ st' = Locals(p, st, DefaultState)
          /\ mid' = Locals(p, mid, None)
          /\ verdict' = [verdict EXCEPT ![p] = "NO_MATCH"]
    /\ UNCHANGED <<notPipeVars, attach, stateFile, recordFiles, now, runs>>
    /\ sleeping' = SleepOf(pc'[Loop])

\* state["last_message_id"] = mid; save_state opens the file for writing,
\* which truncates it
Watermark(p) ==
    /\ pc[p] = "watermark"
    /\ st' = [st EXCEPT ![p] = [@ EXCEPT !.last_message_id = mid[p],
                                         !.keys = @ \cup {"last_message_id"}]]
    /\ stateFile' = Truncate(stateFile)
    /\ pc' = [pc EXCEPT ![p] = "writing"]
    /\ UNCHANGED <<notPipeVars, attach, recordFiles, calendarCalls, now,
                   mid, verdict, err, runs>>
    /\ sleeping' = SleepOf(pc'[Loop])

\* save_state writes json.dumps(state) and closes the file; the iteration's
\* locals are unused from here on
Write(p) ==
    /\ pc[p] = "writing"
    /\ stateFile' = Json(st[p])
    /\ pc' = [pc EXCEPT ![p] = Rest(p)]
    /\ st' = Locals(p, st, DefaultState)
    /\ mid' = [mid EXCEPT ![p] = None]
    /\ verdict' = [verdict EXCEPT ![p] = "NO_MATCH"]
    /\ attach' = [attach EXCEPT ![p] = "none"]
    /\ UNCHANGED <<notPipeVars, recordFiles, calendarCalls, now,
                   err, runs>>
    /\ sleeping' = SleepOf(pc'[Loop])

\* time.sleep(poll_seconds); mid is unused until the next poll assigns it
LoopSleep ==
    /\ pc[Loop] = "sleep"
    /\ pc' = [pc EXCEPT ![Loop] = "poll"]
    /\ mid' = [mid EXCEPT ![Loop] = None]
    /\ UNCHANGED <<notPipeVars, attach, stateFile, recordFiles,
                   calendarCalls, now, st, verdict, err, runs>>
    /\ sleeping' = SleepOf(pc'[Loop])

\* except Exception as e: print, time.sleep(min(300, poll_seconds * 2)); the
\* failed iteration's locals are unused from here on
LoopBackoff ==
    /\ pc[Loop] = "backoff"
    /\ pc' = [pc EXCEPT ![Loop] = "poll"]
    /\ err' = [err EXCEPT ![Loop] = "none"]
    /\ mid' = [mid EXCEPT ![Loop] = None]
    /\ verdict' = [verdict EXCEPT ![Loop] = "NO_MATCH"]
    /\ attach' = [attach EXCEPT ![Loop] = "none"]
    /\ UNCHANGED <<notPipeVars, stateFile, recordFiles,
                   calendarCalls, now, st, runs>>
    /\ sleeping' = SleepOf(pc'[Loop])

-----------------------------------------------------------------------------
(* SpecLog: concurrent callers of log_stream.log *)

\* deque(maxlen=1000)
BufferMaxlen == 1000

Writers == {"w1", "w2"}

\* a faulty append that evicts the newest entry of a full deque instead of the
\* oldest, to show that C13 tells the difference
AppendEvictingNewest(b, x) ==
    IF Len(b) >= BufferMaxlen THEN Append(SubSeq(b, 1, Len(b) - 1), x) ELSE Append(b, x)

\* _buffer.append(x) on a bounded deque: a full deque drops its leftmost item
DequeAppend(b, x) ==
    IF Len(b) >= BufferMaxlen THEN Append(Tail(b), x) ELSE Append(b, x)

\* a log() without mutual exclusion, to show that C10 tells the difference
AcquireUnguarded(w) == TRUE

\* with _lock: the lock is taken only when no caller holds it
CanAcquire(w) == lock = "free"

IdleLog ==
    /\ buffer = <<>>
    /\ next_id = 1
    /\ lock = "free"
    /\ lpc = [w \in Writers |-> "off"]
    /\ lreg = [w \in Writers |-> 0]
    /\ lcalls = 0

\* the buffer after n earlier log() calls: empty, one short of full, or full
InitLog ==
    /\ \E n \in {0, BufferMaxlen - 1, BufferMaxlen} :
          /\ buffer = [i \in 1..n |-> <<i, "old">>]
          /\ next_id = n + 1
    /\ lock = "free"
    /\ lpc = [w \in Writers |-> "idle"]
    /\ lreg = [w \in Writers |-> 0]
    /\ lcalls = 0

\* log(message): ts, line, print(message)
LogBegin(w) ==
    /\ lpc[w] = "idle"
    /\ lcalls < MaxLogCalls
    /\ lcalls' = lcalls + 1
    /\ lpc' = [lpc EXCEPT ![w] = "acquire"]
    /\ UNCHANGED <<buffer, next_id, lock, lreg, notLogVars>>

\* with _lock:
LogAcquire(w) ==
    /\ lpc[w] = "acquire"
    /\ CanAcquire(w)
    /\ lock' = w
    /\ lpc' = [lpc EXCEPT ![w] = "append"]
    /\ UNCHANGED <<buffer, next_id, lreg, lcalls, notLogVars>>

\* _buffer.append((_next_id, line))
LogAppend(w) ==
    /\ lpc[w] = "append"
    /\ buffer' = DequeAppend(buffer, <<next_id, w>>)
    /\ lpc' = [lpc EXCEPT ![w] = "load"]
    /\ UNCHANGED <<next_id, lock, lreg, lcalls, notLogVars>>

\* _next_id += 1 reads the global ...
LogLoad(w) ==
    /\ lpc[w] = "load"
    /\ lreg' = [lreg EXCEPT ![w] = next_id]
    /\ lpc' = [lpc EXCEPT ![w] = "store"]
    /\ UNCHANGED <<buffer, next_id, lock, lcalls, notLogVars>>

\* ... and stores the sum
LogStore(w) ==
    /\ lpc[w] = "store"
    /\ next_id' = lreg[w] + 1
    /\ lpc' = [lpc EXCEPT ![w] = "release"]
    /\ UNCHANGED <<buffer, lock, lreg, lcalls, notLogVars>>

\* leaving the with block releases the lock
LogRelease(w) ==
    /\ lpc[w] = "release"
    /\ lock' = "free"
    /\ lpc' = [lpc EXCEPT ![w] = "idle"]
    /\ UNCHANGED <<buffer, next_id, lreg, lcalls, notLogVars>>

-----------------------------------------------------------------------------
(* SpecStop: stopping the loop *)

\* _runner_stop = Event()
IdleStop == runner_stop = FALSE

\* _runner_stop.set(): the Event that _run_runner_loop documents as the stop
\* flag of the loop; run() never reads it
SetStop ==
    /\ pc[Loop] \notin {"off", "stopped"}
    /\ ~runner_stop
    /\ runner_stop' = TRUE
    /\ UNCHANGED <<pipeVars, applyVars, logVars, viewVars, pureVars, profVars,
                   startVars, extraVars>>

\* KeyboardInterrupt, raised in the thread of run() wherever it is: inside the
\* try block the handler prints and breaks out of the loop; inside the
\* back-off sleep of the exception handler it leaves run() uncaught
LoopInterrupt ==
    /\ pc[Loop] \in {"poll", "fetch", "calendar", "watermark", "writing",
                     "sleep", "backoff"}
    /\ pc' = [pc EXCEPT ![Loop] = "stopped"]
    /\ UNCHANGED <<notPipeVars, attach, stateFile, recordFiles, calendarCalls, now, st,
                   mid, verdict, err, runs>>
    /\ sleeping' = SleepOf(pc'[Loop])

-----------------------------------------------------------------------------
(* SpecView, SpecRecent: get_recent and the log viewer *)

\* an optional integer argument: absent (None), or an integer
Nothing == <<>>
Some(n) == <<n>>

\* get_recent(limit, since_id) on a snapshot of the buffer: the items with a
\* greater id when since_id is given, then items[-limit:] when limit is given
\* and positive
get_recent(items, limit, since_id) ==
    LET newer == IF since_id # Nothing
                 THEN SelectSeq(items, LAMBDA item : item[1] > since_id[1])
                 ELSE items
    IN  IF limit # Nothing /\ limit[1] > 0 THEN LastN(newer, limit[1]) ELSE newer

\* the limits a viewer asks for: the page's default and the smallest positive
ViewerLimits == {1, 200}

\* the arguments of direct calls
LimitArgs == {Nothing, Some(-1), Some(0), Some(1), Some(2), Some(200),
              Some(BufferMaxlen), Some(BufferMaxlen + 1)}
SinceArgs == {Nothing, Some(-1), Some(0), Some(1), Some(BufferMaxlen - 2),
              Some(BufferMaxlen - 1), Some(BufferMaxlen), Some(BufferMaxlen + 1)}

NoCall == [called |-> FALSE, limit |-> Nothing, since_id |-> Nothing]

IdleView ==
    /\ vlimit = 0
    /\ vsince = Nothing
    /\ vgot = <<>>
    /\ vpolls = 0
    /\ gargs = NoCall
    /\ gres = <<>>

\* a freshly loaded log page: sinceId = null
InitView ==
    /\ vlimit \in ViewerLimits
    /\ vsince = Nothing
    /\ vgot = <<>>
    /\ vpolls = 0
    /\ gargs = NoCall
    /\ gres = <<>>

\* poll() of the log page: GET /api/logs with limit and, once an item was
\* received, since_id; get_logs calls get_recent, which copies the buffer
\* under the lock; the page appends the items and keeps the last id
ViewerPoll ==
    /\ vlimit > 0
    /\ vpolls < MaxPolls
    /\ CanAcquire("viewer")
    /\ LET items == get_recent(buffer, Some(vlimit), vsince)
       IN  /\ gargs' = [called |-> TRUE, limit |-> Some(vlimit), since_id |-> vsince]
           /\ gres' = items
           /\ vgot' = vgot \o [i \in 1..Len(items) |-> items[i][1]]
           /\ vsince' = IF items = <<>> THEN vsince
                        ELSE Some(items[Len(items)][1])
    /\ vpolls' = vpolls + 1
    /\ UNCHANGED <<vlimit, notViewVars>>

\* a direct call get_recent(limit, since_id)
GetRecentCall ==
    /\ vlimit = 0
    /\ CanAcquire("caller")
    /\ \E limit \in LimitArgs, since_id \in SinceArgs :
          /\ gargs' = [called |-> TRUE, limit |-> limit, since_id |-> since_id]
          /\ gres' = get_recent(buffer, limit, since_id)
    /\ UNCHANGED <<vlimit, vsince, vgot, vpolls, notViewVars>>

\* the buffer after n log() calls, with no call in progress
InitBuffer ==
    /\ \E n \in {0, 1, BufferMaxlen - 1, BufferMaxlen, BufferMaxlen + 1} :
          /\ buffer = [i \in 1..Min(n, BufferMaxlen) |->
                          <<i + n - Min(n, BufferMaxlen), "old">>]
          /\ next_id = n + 1
    /\ lock = "free"
    /\ lpc = [w \in Writers |-> "off"]
    /\ lreg = [w \in Writers |-> 0]
    /\ lcalls = 0

-----------------------------------------------------------------------------
(* SpecFuse: match_utils.best applied to bounded inputs *)

\* what a caller may pass: a verdict, or a falsy value ("" stands for None
\* and the empty string)
FuseArgs == Verdicts \cup {""}

RECURSIVE SeqsUpTo(_, _)
SeqsUpTo(S, n) ==
    IF n = 0 THEN {<<>>}
    ELSE LET shorter == SeqsUpTo(S, n - 1)
         IN  shorter \cup {Append(q, x) : q \in shorter, x \in S}

\* no call yet: as after best()
IdleFuse ==
    /\ fargs = <<>>
    /\ fres = "NO_MATCH"

\* best(*match_types)
FuseCall ==
    /\ \E match_types \in SeqsUpTo(FuseArgs, MaxArgs) :
          /\ fargs' = match_types
          /\ fres' = best(match_types)
    /\ UNCHANGED <<notPureVars, classVars, textVars, overallVars>>

\* any string may be passed: the match_type of an attachment result is also
\* "UNSUPPORTED" (parsers/__init__.py) or "ERROR" (pdf_parser.parse_pdf_content)
AnyArgs == FuseArgs \cup {"UNSUPPORTED", "ERROR"}

\* best(*match_types) with arbitrary strings
FuseAnyCall ==
    /\ \E match_types \in SeqsUpTo(AnyArgs, MaxArgs) :
          /\ fargs' = match_types
          /\ fres' = best(match_types)
    /\ UNCHANGED <<notPureVars, classVars, textVars, overallVars>>

-----------------------------------------------------------------------------
(* SpecClassify: the four classifiers on the signals they found *)

\* a classifier that files a lone name under PARTIAL_MATCH and a lone code or
\* address under POSSIBILITY, to show that C18 tells the difference
RowMatchSwapped(name_match, reg_match, email_match) ==
    IF name_match /\ (reg_match \/ email_match) THEN "CONFIRMED_MATCH"
    ELSE IF name_match THEN "PARTIAL_MATCH"
    ELSE IF reg_match \/ email_match THEN "POSSIBILITY"
    ELSE "NO_MATCH"

\* match_logic.evaluate_match and runner.evaluate_match, from name_match,
\* reg_match, gmail_match and personal_match on
evaluate_match(name_match, reg_match, gmail_match, personal_match) ==
    IF name_match /\ (reg_match \/ gmail_match \/ personal_match) THEN "CONFIRMED_MATCH"
    ELSE IF name_match THEN "POSSIBILITY"
    ELSE IF reg_match \/ gmail_match \/ personal_match THEN "PARTIAL_MATCH"
    ELSE "NO_MATCH"

\* evaluate_content_match, from its four flags on
evaluate_content_match(name_match, reg_match, gmail_match, personal_match) ==
    IF name_match /\ (reg_match \/ gmail_match \/ personal_match) THEN "CONFIRMED_MATCH"
    ELSE IF name_match THEN "POSSIBILITY"
    ELSE IF reg_match \/ gmail_match \/ personal_match THEN "PARTIAL_MATCH"
    ELSE "NO_MATCH"

\* doc_parser.evaluate_row_match_flexible, from the flags the row's matching
\* cells set
evaluate_row_match_flexible(name_match, reg_match, email_match) ==
    IF name_match /\ (reg_match \/ email_match) THEN "CONFIRMED_MATCH"
    ELSE IF name_match THEN "POSSIBILITY"
    ELSE IF reg_match \/ email_match THEN "PARTIAL_MATCH"
    ELSE "NO_MATCH"

\* pdf_parser.evaluate_text_match: match_type starts as NO_MATCH; name_matches
\* and email_matches stand for "the list is not empty"
evaluate_text_match(name_matches, reg_match, email_matches) ==
    IF name_matches /\ (reg_match \/ email_matches) THEN "CONFIRMED_MATCH"
    ELSE IF name_matches THEN "POSSIBILITY"
    ELSE IF reg_match \/ email_matches THEN "PARTIAL_MATCH"
    ELSE "NO_MATCH"

Classifiers == {"evaluate_match", "evaluate_content_match",
                "evaluate_row_match_flexible", "evaluate_text_match"}

\* the signals: the name, the registration code, and the two addresses of the
\* profile (a row or a document matches an address when it holds either)
ClassifierInputs ==
    [classifier : Classifiers, name : BOOLEAN, reg : BOOLEAN,
     gmail : BOOLEAN, personal : BOOLEAN]

IdleClassify ==
    /\ cargs = [classifier |-> "", name |-> FALSE, reg |-> FALSE,
                gmail |-> FALSE, personal |-> FALSE]
    /\ cres = ""

InitClassify ==
    /\ cargs \in ClassifierInputs
    /\ cres = ""

\* the classifier's decision
ClassifyCall ==
    /\ cargs.classifier \in Classifiers
    /\ cres = ""
    /\ cres' = CASE cargs.classifier = "evaluate_match" ->
                      evaluate_match(cargs.name, cargs.reg, cargs.gmail, cargs.personal)
                 [] cargs.classifier = "evaluate_content_match" ->
                      evaluate_content_match(cargs.name, cargs.reg, cargs.gmail,
                                             cargs.personal)
                 [] cargs.classifier = "evaluate_row_match_flexible" ->
                      evaluate_row_match_flexible(cargs.name, cargs.reg,
                                                  cargs.gmail \/ cargs.personal)
                 [] cargs.classifier = "evaluate_text_match" ->
                      evaluate_text_match(cargs.name, cargs.reg,
                                          cargs.gmail \/ cargs.personal)
    /\ UNCHANGED <<cargs, notPureVars, fuseVars, textVars, overallVars>>

-----------------------------------------------------------------------------
(* SpecText: the string comparisons behind the signals. A string is a      *)
(* sequence of characters; "a"/"A" are one letter in its two cases, "1"    *)
(* has no case and " " is whitespace.                                      *)

MaxLen == 3

Chars == {"a", "A", "1", " "}

Strings == SeqsUpTo(Chars, MaxLen)

\* str.lower / str.upper
Lower(s) == [i \in 1..Len(s) |-> IF s[i] = "A" THEN "a" ELSE s[i]]

Upper(s) == [i \in 1..Len(s) |-> IF s[i] = "a" THEN "A" ELSE s[i]]

\* str.strip(): leading and trailing whitespace removed
Strip(s) ==
    LET inked == {i \in 1..Len(s) : s[i] # " "}
    IN  IF inked = {} THEN <<>>
        ELSE SubSeq(s, CHOOSE i \in inked : \A j \in inked : i <= j,
                       CHOOSE i \in inked : \A j \in inked : i >= j)

\* re.sub(r"\s+", " ", s): every run of whitespace becomes one space
Collapse(s) ==
    LET kept == {i \in 1..Len(s) : s[i] # " " \/ i = 1 \/ s[i - 1] # " "}
        nth(k) == CHOOSE i \in kept : Cardinality({j \in kept : j <= i}) = k
    IN  [k \in 1..Cardinality(kept) |-> s[nth(k)]]

\* str.split() and the non-empty pieces of split(" "): the maximal runs of
\* non-whitespace, in order
RECURSIVE Words(_)
Words(s) ==
    IF s = <<>> THEN <<>>
    ELSE IF Head(s) = " " THEN Words(Tail(s))
    ELSE LET stops == {i \in 1..Len(s) : s[i] = " "}
             n == IF stops = {} THEN Len(s)
                  ELSE (CHOOSE i \in stops : \A j \in stops : i <= j) - 1
         IN  <<SubSeq(s, 1, n)>> \o Words(SubSeq(s, n + 1, Len(s)))

WordSet(s) == {Words(s)[i] : i \in 1..Len(Words(s))}

\* str.find(p, idx) with 0-based positions: the first place at or after idx
\* where p starts as a substring of t, or -1
Find(t, p, idx) ==
    LET starts == {i \in idx..(Len(t) - Len(p)) :
                      SubSeq(t, i + 1, i + Len(p)) = p}
    IN  IF starts = {} THEN -1
        ELSE CHOOSE i \in starts : \A j \in starts : i <= j

check_name_match(profile_name, email_name) ==
    IF profile_name = <<>> \/ email_name = <<>> THEN FALSE
    ELSE LET pn == Strip(Lower(profile_name))
             en == Strip(Lower(email_name))
         IN  IF pn = en THEN TRUE
             ELSE WordSet(pn) \subseteq WordSet(en)

check_email_match(profile_email, email_addr) ==
    IF profile_email = <<>> \/ email_addr = <<>> THEN FALSE
    ELSE Strip(Lower(profile_email)) = Strip(Lower(email_addr))

\* evaluate_match's reg_match
reg_match(profile_reg, parsed_reg) ==
    /\ profile_reg # <<>> /\ parsed_reg # <<>>
    /\ Upper(profile_reg) = Upper(parsed_reg)

\* the loop of text_contains_name over the name's parts, from position idx
RECURSIVE FindParts(_, _, _)
FindParts(t, parts, idx) ==
    IF parts = <<>> THEN TRUE
    ELSE LET found == Find(t, Head(parts), idx)
         IN  IF found = -1 THEN FALSE
             ELSE FindParts(t, Tail(parts), found + Len(Head(parts)))

text_contains_name(text, name) ==
    IF text = <<>> \/ name = <<>> THEN FALSE
    ELSE LET t == Lower(Collapse(text))
             n == Strip(Lower(Collapse(name)))
         IN  IF n = <<>> THEN FALSE
             ELSE FindParts(t, Words(n), 0)

Comparisons == {"check_name_match", "check_email_match", "reg_match",
                "text_contains_name"}

\* x is the profile's value (for text_contains_name, the text), y the parsed
\* one (for text_contains_name, the name)
IdleText ==
    /\ targs = [fn |-> "", x |-> <<>>, y |-> <<>>]
    /\ tres = Nothing

InitText ==
    /\ targs \in [fn : Comparisons, x : Strings, y : Strings]
    /\ tres = Nothing

CompareCall ==
    /\ targs.fn \in Comparisons
    /\ tres = Nothing
    /\ tres' = Some(CASE targs.fn = "check_name_match" ->
                           check_name_match(targs.x, targs.y)
                      [] targs.fn = "check_email_match" ->
                           check_email_match(targs.x, targs.y)
                      [] targs.fn = "reg_match" -> reg_match(targs.x, targs.y)
                      [] targs.fn = "text_contains_name" ->
                           text_contains_name(targs.x, targs.y))
    /\ UNCHANGED <<targs, notPureVars, fuseVars, classVars, overallVars>>

-----------------------------------------------------------------------------
(* SpecOverall: the overall_match_type of a message, from the verdicts of  *)
(* its header, its content and its attachments                             *)

IdleOverall ==
    /\ oargs = [p |-> "", h |-> "NO_MATCH", c |-> "NO_MATCH", a |-> "NO_MATCH"]
    /\ ores = ""

InitOverall ==
    /\ oargs \in [p : Pipelines, h : Verdicts, c : Verdicts, a : Verdicts]
    /\ ores = ""

\* evaluate_match, evaluate_content_match and parse_email_attachments have
\* returned h, c and a (the three calls are unconditional); the pipeline
\* computes overall_match_type
OverallCall ==
    /\ oargs.p \in Pipelines
    /\ ores = ""
    /\ ores' = Overall(oargs.p, oargs.h, oargs.c, oargs.a)
    /\ UNCHANGED <<oargs, notPureVars, fuseVars, classVars, textVars>>

-----------------------------------------------------------------------------
(* SpecProfile: profile.json, the profile dict the loop holds (runner.run *)
(* step 7) and POST /api/profile (api.update_profile)                    *)

\* the keys update_profile accepts; name and registration_number are the two
\* the loop may fill in
ProfileKeys == {"name", "registration_number", "gmail_display_name",
                "personal_email", "phone_number"}

\* the display names parse_from_header may return for a message's sender
Displays == {"", "Sam", "Sam 22BCE0001", "22BCE0001", "Lee"}

\* split_name_and_reg(display_name): the registration number REG_RE finds,
\* and the rest as the name
split_name_and_reg(display_name) ==
    CASE display_name = "Sam" -> [name |-> "Sam", reg |-> ""]
      [] display_name = "Lee" -> [name |-> "Lee", reg |-> ""]
      [] display_name = "Sam 22BCE0001" -> [name |-> "Sam", reg |-> "22BCE0001"]
      [] display_name = "22BCE0001" -> [name |-> "", reg |-> "22BCE0001"]
      [] OTHER -> [name |-> "", reg |-> ""]

\* a step 7 that takes the sender's name whenever one was parsed, to show
\* that C29 tells the difference
OverwritingProfileStep(prof, display_name) ==
    LET parsed == split_name_and_reg(display_name)
        named == parsed.name # ""
        p1 == IF named THEN [prof EXCEPT !.name = parsed.name] ELSE prof
    IN  [profile |-> p1, updated |-> named]

\* runner.run step 7 on the dict prof: the dict afterwards and the flag
\* updated
ProfileStep(prof, display_name) ==
    LET parsed == split_name_and_reg(display_name)
        shown == display_name # "" /\ display_name # prof.gmail_display_name
        p1 == IF shown THEN [prof EXCEPT !.gmail_display_name = display_name]
              ELSE prof
        named == parsed.name # "" /\ p1.name = ""
        p2 == IF named THEN [p1 EXCEPT !.name = parsed.name] ELSE p1
        numbered == parsed.reg # "" /\ p2.registration_number = ""
        p3 == IF numbered THEN [p2 EXCEPT !.registration_number = parsed.reg]
              ELSE p2
    IN  [profile |-> p3, updated |-> shown \/ named \/ numbered]

\* the string values a profile edit may carry, and val = body[key].strip()
EditValues == {"", "Eve", " Eve "}
StripValue(v) == IF v = " Eve " THEN "Eve" ELSE v

\* the profiles ensure_profile may have returned to run(): every key is
\* present, name and registration number are known or not
StartProfiles ==
    {[name |-> n, registration_number |-> r, gmail_display_name |-> g,
      personal_email |-> "me@x.org", phone_number |-> "+919876543210"] :
        n \in {"", "Pat"}, r \in {"", "21ABC1234"}, g \in {"", "Sam"}}

NeverEdited == [k \in ProfileKeys |-> Nothing]

IdleProfile ==
    /\ profileFile = [k \in ProfileKeys |-> ""]
    /\ profile = [k \in ProfileKeys |-> ""]
    /\ pbefore = NeverEdited
    /\ psaves = 0
    /\ pmsgs = MaxMessages
    /\ pedits = MaxEdits

\* run() has called get_gmail_client_and_profile: profile.json holds what
\* ensure_profile saved and returned
InitProfile ==
    /\ profileFile \in StartProfiles
    /\ profile = profileFile
    /\ pbefore = NeverEdited
    /\ psaves = 0
    /\ pmsgs = 0
    /\ pedits = 0

\* an iteration of the loop reaches step 7 for a message whose sender's
\* display name is display_name: the dict is updated and, if updated is set,
\* save_profile writes the whole dict
ProcessProfile(display_name) ==
    /\ pmsgs < MaxMessages
    /\ pmsgs' = pmsgs + 1
    /\ LET r == ProfileStep(profile, display_name)
       IN  /\ profile' = r.profile
           /\ IF r.updated
              THEN profileFile' = r.profile /\ psaves' = psaves + 1
              ELSE UNCHANGED <<profileFile, psaves>>
    /\ UNCHANGED <<pbefore, pedits, notProfVars>>

\* update_profile with a body that carries value for key: the file is read,
\* the key is set to the stripped value and the file is written
UpdateProfile(key, value) ==
    /\ pedits < MaxEdits
    /\ pedits' = pedits + 1
    /\ profileFile' = [profileFile EXCEPT ![key] = StripValue(value)]
    /\ pbefore' = [pbefore EXCEPT ![key] = Some(profileFile[key])]
    /\ UNCHANGED <<profile, psaves, pmsgs, notProfVars>>

-----------------------------------------------------------------------------
(* SpecStart: POST /api/runner/start (api.start_runner) *)

\* two clients of the threaded Flask server
StartRequests == {"r1", "r2"}

Threads == 1..MaxThreads

IdleStart ==
    /\ runner_thread = None
    /\ thread = [t \in Threads |-> "unused"]
    /\ spc = [r \in StartRequests |-> "off"]

\* the module is loaded: _runner_thread = None
InitStart ==
    /\ runner_thread = None
    /\ thread = [t \in Threads |-> "unused"]
    /\ spc = [r \in StartRequests |-> "idle"]

\* a POST /api/runner/start arrives and its handler begins
StartArrives(r) ==
    /\ spc[r] = "idle"
    /\ spc' = [spc EXCEPT ![r] = "check"]
    /\ UNCHANGED <<runner_thread, thread, notStartVars>>

\* if _runner_thread and _runner_thread.is_alive(): return "already running"
StartCheck(r) ==
    /\ spc[r] = "check"
    /\ spc' = [spc EXCEPT ![r] =
                 IF runner_thread # None /\ thread[runner_thread] = "alive"
                 THEN "idle" ELSE "create"]
    /\ UNCHANGED <<runner_thread, thread, notStartVars>>

\* _runner_thread = Thread(target=_run_runner_loop, daemon=True)
StartCreate(r) ==
    /\ spc[r] = "create"
    /\ \E t \in Threads :
          /\ thread[t] = "unused"
          /\ \A u \in Threads : thread[u] = "unused" => t <= u
          /\ thread' = [thread EXCEPT ![t] = "new"]
          /\ runner_thread' = t
    /\ spc' = [spc EXCEPT ![r] = "start"]
    /\ UNCHANGED notStartVars

\* _runner_thread.start() on whatever the global holds now: the thread
\* starts, or start() raises RuntimeError because it was started before;
\* then the handler returns
StartThread(r) ==
    /\ spc[r] = "start"
    /\ thread' = IF thread[runner_thread] = "new"
                 THEN [thread EXCEPT ![runner_thread] = "alive"]
                 ELSE thread
    /\ spc' = [spc EXCEPT ![r] = "idle"]
    /\ UNCHANGED <<runner_thread, notStartVars>>

\* _run_runner_loop returns: run() raised outside the try block of its loop
\* (get_gmail_client_and_profile, load_state) and the thread ends
ThreadExits(t) ==
    /\ thread[t] = "alive"
    /\ thread' = [thread EXCEPT ![t] = "dead"]
    /\ UNCHANGED <<runner_thread, spc, notStartVars>>

-----------------------------------------------------------------------------
(* SpecScan: parsers.parse_email_attachments over the attachments of one   *)
(* message. An attachment is described by what the parsers make of it:     *)
(*   table      a CSV or Excel file that parses; c, p and q are the rows   *)
(*              scan_dataframe_for_values put in confirmed_matches,        *)
(*              possibilities and partial_matches;                         *)
(*   pdf        a PDF whose text was extracted; match_type is the verdict  *)
(*              of evaluate_text_match;                                    *)
(*   badtable   a CSV or Excel file that fails to decode or parse;         *)
(*   badpdf     a PDF that fails to parse (or PyPDF2 is missing);          *)
(*   other      a file neither parser handles;                             *)
(*   malformed  a part whose filename or mimeType is not a string, on      *)
(*              which filename.lower() raises outside every parser's try.  *)

\* attachments of one message
MaxAtts == 2
\* matching rows of one table
MaxRows == 2

Attachments ==
    LET Blank(kind) == [kind |-> kind, c |-> 0, p |-> 0, q |-> 0, match_type |-> ""]
    IN  {t \in {[Blank("table") EXCEPT !.c = c, !.p = p, !.q = q] :
                    c \in 0..MaxRows, p \in 0..MaxRows, q \in 0..MaxRows} :
            t.c + t.p + t.q <= MaxRows}
        \cup {[Blank("pdf") EXCEPT !.match_type = v] : v \in Verdicts}
        \cup {Blank("badtable"), Blank("badpdf"), Blank("other"), Blank("malformed")}

\* results as parse_email_attachments builds it before its try block; error
\* stands for the presence of the key "error"
EmptyResults ==
    [total_attachments |-> 0, parsed_attachments |-> 0, parsing_results |-> <<>>,
     overall_match_type |-> "NO_MATCH",
     summary |-> [confirmed_matches |-> 0, possibilities |-> 0,
                  partial_matches |-> 0, errors |-> 0],
     error |-> FALSE]

\* a parser that takes a file it cannot parse for a type it does not handle,
\* to show that C33 tells the difference
ParseOrSkip(a) ==
    [supported |-> a.kind \in {"table", "pdf"},
     total_rows |-> a.kind = "table",
     error |-> FALSE,
     lists |-> a.kind = "table",
     confirmed_matches |-> a.c, possibilities |-> a.p, partial_matches |-> a.q,
     match_type |-> a.match_type]

\* doc_result after the document parser and then the PDF parser were tried:
\* supported is "doc_result is not None"; total_rows, error and lists say
\* whether the keys total_rows, error and confirmed_matches are present;
\* match_type is "" when that key is absent
parse_attachment(a) ==
    [supported |-> a.kind # "other",
     total_rows |-> a.kind = "table",
     error |-> a.kind \in {"badtable", "badpdf"},
     lists |-> a.kind = "table",
     confirmed_matches |-> a.c, possibilities |-> a.p, partial_matches |-> a.q,
     match_type |-> IF a.kind = "badpdf" THEN "ERROR" ELSE a.match_type]

\* a loop body that counts a file of an unsupported type among the parsed
\* ones, to show that C34 tells the difference
TallyCountingAll(res, a) ==
    LET doc_result == parse_attachment(a)
    IN  [res EXCEPT
           !.parsing_results =
               Append(@, [parser_used |-> IF ~doc_result.supported THEN "none"
                                          ELSE IF doc_result.total_rows
                                          THEN "document" ELSE "pdf",
                          error |-> doc_result.error \/ ~doc_result.supported,
                          match_type |-> IF doc_result.supported
                                         THEN doc_result.match_type
                                         ELSE "UNSUPPORTED"]),
           !.parsed_attachments = @ + 1,
           !.summary =
               IF doc_result.supported /\ ~doc_result.error
               THEN [@ EXCEPT
                       !.confirmed_matches = @ + doc_result.confirmed_matches
                           + (IF doc_result.match_type = "CONFIRMED_MATCH" THEN 1 ELSE 0),
                       !.possibilities = @ + doc_result.possibilities
                           + (IF doc_result.match_type = "POSSIBILITY" THEN 1 ELSE 0),
                       !.partial_matches = @ + doc_result.partial_matches
                           + (IF doc_result.match_type = "PARTIAL_MATCH" THEN 1 ELSE 0)]
               ELSE [@ EXCEPT !.errors = @ + 1]]

\* the body of the loop over the attachments, for attachment a
Tally(res, a) ==
    LET doc_result == parse_attachment(a)
        s == res.summary
        match_type == IF doc_result.match_type = "" THEN "NO_MATCH"
                      ELSE doc_result.match_type
    IN  IF doc_result.supported
        THEN [res EXCEPT
                !.parsing_results =
                    Append(@, [parser_used |-> IF doc_result.total_rows
                                               THEN "document" ELSE "pdf",
                               error |-> doc_result.error,
                               match_type |-> doc_result.match_type]),
                !.parsed_attachments = @ + 1,
                !.summary =
                    IF doc_result.error THEN [s EXCEPT !.errors = @ + 1]
                    ELSE IF doc_result.lists
                    THEN [s EXCEPT
                            !.confirmed_matches = @ + doc_result.confirmed_matches,
                            !.possibilities = @ + doc_result.possibilities,
                            !.partial_matches = @ + doc_result.partial_matches]
                    ELSE CASE match_type = "CONFIRMED_MATCH" ->
                                [s EXCEPT !.confirmed_matches = @ + 1]
                           [] match_type = "POSSIBILITY" ->
                                [s EXCEPT !.possibilities = @ + 1]
                           [] match_type = "PARTIAL_MATCH" ->
                                [s EXCEPT !.partial_matches = @ + 1]
                           [] OTHER -> s]
        ELSE [res EXCEPT !.parsing_results =
                 Append(@, [parser_used |-> "none", error |-> TRUE,
                            match_type |-> "UNSUPPORTED"])]

\* an overall verdict that goes by the larger count, to show that C32 tells
\* the difference
OverallByCount(summary) ==
    IF summary.confirmed_matches > 0
       /\ summary.confirmed_matches >= summary.possibilities
    THEN "CONFIRMED_MATCH"
    ELSE IF summary.possibilities > 0 THEN "POSSIBILITY"
    ELSE IF summary.confirmed_matches > 0 THEN "CONFIRMED_MATCH"
    ELSE IF summary.partial_matches > 0 THEN "PARTIAL_MATCH"
    ELSE "NO_MATCH"

\* "Determine overall match type"
DetermineOverall(summary) ==
    IF summary.confirmed_matches > 0 THEN "CONFIRMED_MATCH"
    ELSE IF summary.possibilities > 0 THEN "POSSIBILITY"
    ELSE IF summary.partial_matches > 0 THEN "PARTIAL_MATCH"
    ELSE "NO_MATCH"

IdleScan ==
    /\ atts = <<>>
    /\ results = EmptyResults
    /\ ai = 0
    /\ apc = "off"

InitScan ==
    /\ atts \in SeqsUpTo(Attachments, MaxAtts)
    /\ results = EmptyResults
    /\ ai = 0
    /\ apc = "start"

\* attachments = get_email_attachments(...); total_attachments; return
\* results at once when there is none
ScanStart ==
    /\ apc = "start"
    /\ results' = [results EXCEPT !.total_attachments = Len(atts)]
    /\ apc' = IF atts = <<>> THEN "returned" ELSE "loop"
    /\ UNCHANGED <<atts, ai, notScanVars>>

\* one turn of the loop that ends normally
ScanStep ==
    /\ apc = "loop"
    /\ ai < Len(atts)
    /\ atts[ai + 1].kind # "malformed"
    /\ results' = Tally(results, atts[ai + 1])
    /\ ai' = ai + 1
    /\ UNCHANGED <<atts, apc, notScanVars>>

\* one turn of the loop that raises: except Exception sets results["error"]
\* and returns results
ScanRaises ==
    /\ apc = "loop"
    /\ ai < Len(atts)
    /\ atts[ai + 1].kind = "malformed"
    /\ results' = [results EXCEPT !.error = TRUE]
    /\ apc' = "caught"
    /\ UNCHANGED <<atts, ai, notScanVars>>

\* the loop is over: overall_match_type from the summary, return results
ScanFinish ==
    /\ apc = "loop"
    /\ ai = Len(atts)
    /\ results' = [results EXCEPT !.overall_match_type =
                                     DetermineOverall(results.summary)]
    /\ apc' = "returned"
    /\ UNCHANGED <<atts, ai, notScanVars>>

-----------------------------------------------------------------------------
(* SpecMatch: the four classifiers from the profile and the unit they are  *)
(* given on. A header is the parsed name, the parsed code and the sender's *)
(* address; a content is the subject and body text; a row or a document is *)
(* the sequence of what the extractors found in it, each a name-like text, *)
(* a registration code or an address.                                      *)

\* cells of a row, findings of a document
MaxCells == 3

\* a field is absent or empty (.get's default is ""), blank, or set
Profiles ==
    [name : {<<>>, <<" ">>, <<"a">>, <<"A", " ", "1">>},
     registration_number : {<<>>, <<"1">>},
     gmail_address : {<<>>, <<"A">>},
     personal_email : {<<>>, <<"a", "1">>}]

\* what REG_RE, EMAIL_RE and the name tests extract is never empty, and a
\* code or an address holds no whitespace
Findings ==
    [type : {"name"}, value : {<<"a">>, <<"1">>, <<"1", " ", "A">>}]
    \cup [type : {"registration"}, value : {<<"a">>, <<"1">>}]
    \cup [type : {"email"}, value : {<<"a">>, <<"1">>, <<"a", "1">>}]

Units ==
    [classifier : {"evaluate_match"},
     name : SeqsUpTo(Chars, 1) \cup {<<"A", " ", "1">>},
     reg : SeqsUpTo(Chars, 1), email : SeqsUpTo(Chars, 1) \cup {<<"a", "1">>},
     text : {<<>>}, cells : {<<>>}]
    \cup [classifier : {"evaluate_content_match"},
          name : {<<>>}, reg : {<<>>}, email : {<<>>},
          text : Strings, cells : {<<>>}]
    \cup [classifier : {"scan_dataframe_for_values", "evaluate_text_match"},
          name : {<<>>}, reg : {<<>>}, email : {<<>>},
          text : {<<>>}, cells : SeqsUpTo(Findings, MaxCells)]

\* evaluate_match(profile, parsed_name, parsed_reg, sender_email) of
\* match_logic and of runner
header_match(prof, parsed_name, parsed_reg, sender_email) ==
    evaluate_match(check_name_match(prof.name, parsed_name),
                   reg_match(prof.registration_number, parsed_reg),
                   check_email_match(prof.gmail_address, sender_email),
                   check_email_match(prof.personal_email, sender_email))

\* a content classifier that tests "address in text" without asking whether
\* the profile has an address, to show that C35 tells the difference
ContentMatchUnguarded(prof, text) ==
    LET prof_gmail == Lower(Strip(prof.gmail_address))
        prof_personal == Lower(Strip(prof.personal_email))
    IN  evaluate_content_match(text_contains_name(text, Strip(prof.name)),
                               FALSE,
                               Find(Lower(text), prof_gmail, 0) # -1,
                               Find(Lower(text), prof_personal, 0) # -1)

\* evaluate_content_match(profile, subject, body) with text the subject and
\* the body joined; re.search(re.escape(r), text, re.IGNORECASE) and
\* "a in text_lower" look for a substring
content_match(prof, text) ==
    LET prof_name == Strip(prof.name)
        prof_reg == Strip(prof.registration_number)
        prof_gmail == Lower(Strip(prof.gmail_address))
        prof_personal == Lower(Strip(prof.personal_email))
    IN  evaluate_content_match(
            text_contains_name(text, prof_name),
            prof_reg # <<>> /\ Find(Lower(text), Lower(prof_reg), 0) # -1,
            prof_gmail # <<>> /\ Find(Lower(text), prof_gmail, 0) # -1,
            prof_personal # <<>> /\ Find(Lower(text), prof_personal, 0) # -1)

\* the types of the matching_cells scan_dataframe_for_values collects for a
\* row, with doc_parser.check_name_match for the name-like cells
matching_cells(prof, cells) ==
    LET profile_name == Strip(Lower(prof.name))
        profile_reg == Strip(Upper(prof.registration_number))
        profile_gmail == Strip(Lower(prof.gmail_address))
        profile_personal == Strip(Lower(prof.personal_email))
        named(text) ==
            IF profile_name = <<>> \/ text = <<>> THEN FALSE
            ELSE LET profile_words == WordSet(Lower(profile_name))
                     extracted_words == WordSet(Lower(text))
                     shared == profile_words \cap extracted_words
                 IN  \/ profile_words \subseteq extracted_words
                     \/ extracted_words \subseteq profile_words
                     \/ 10 * Cardinality(shared) >= 8 * Cardinality(profile_words)
        matches(cell) ==
            CASE cell.type = "registration" ->
                     profile_reg # <<>> /\ profile_reg = Upper(cell.value)
              [] cell.type = "email" ->
                     Lower(cell.value) \in {profile_gmail, profile_personal}
              [] cell.type = "name" -> named(Strip(cell.value))
    IN  {cells[i].type : i \in {j \in 1..Len(cells) : matches(cells[j])}}

\* the verdict of a row: evaluate_row_match_flexible over its matching cells
scan_row(prof, cells) ==
    LET found == matching_cells(prof, cells)
    IN  evaluate_row_match_flexible("name" \in found, "registration" \in found,
                                    "email" \in found)

\* pdf_parser.evaluate_text_match(text, profile) from the extracted names,
\* codes and addresses on, with pdf_parser.check_name_match
scan_document(prof, cells) ==
    LET named(name) ==
            IF prof.name = <<>> \/ name = <<>> THEN FALSE
            ELSE LET profile_words == WordSet(Lower(prof.name))
                     extracted_words == WordSet(Lower(name))
                 IN  \/ profile_words \subseteq extracted_words
                     \/ extracted_words \subseteq profile_words
        of(type) == {cells[i].value : i \in {j \in 1..Len(cells) : cells[j].type = type}}
        name_matches == {n \in of("name") : named(n)}
        registered ==
            IF prof.registration_number # <<>>
            THEN Upper(prof.registration_number) \in {Upper(r) : r \in of("registration")}
            ELSE FALSE
        email_matches ==
            {e \in of("email") : Lower(e) \in {Lower(prof.gmail_address),
                                              Lower(prof.personal_email)}}
    IN  evaluate_text_match(name_matches # {}, registered, email_matches # {})

\* a scan that files a confirmed row under the possibilities too, to show
\* that C37 tells the difference
FileRowTwice(match_type) ==
    [confirmed_matches |-> IF match_type = "CONFIRMED_MATCH" THEN 1 ELSE 0,
     possibilities |-> IF match_type \in {"CONFIRMED_MATCH", "POSSIBILITY"}
                       THEN 1 ELSE 0,
     partial_matches |-> IF match_type = "PARTIAL_MATCH" THEN 1 ELSE 0]

\* the rows in the three lists of the scan result after the row was
\* appended where its match_type says
FileRow(match_type) ==
    [confirmed_matches |-> IF match_type = "CONFIRMED_MATCH" THEN 1 ELSE 0,
     possibilities |-> IF match_type = "POSSIBILITY" THEN 1 ELSE 0,
     partial_matches |-> IF match_type = "PARTIAL_MATCH" THEN 1 ELSE 0]

IdleMatch ==
    /\ margs = [classifier |-> "", profile |-> <<>>, unit |-> <<>>]
    /\ mres = ""
    /\ mlists = FileRow("NO_MATCH")

InitMatch ==
    /\ margs \in [classifier : {"call"}, profile : Profiles, unit : Units]
    /\ mres = ""
    /\ mlists = FileRow("NO_MATCH")

\* the classifier's verdict for the unit; the scan of a table files the row
MatchCall ==
    /\ margs.classifier = "call"
    /\ mres = ""
    /\ LET prof == margs.profile
           unit == margs.unit
       IN  /\ mres' =
                CASE unit.classifier = "evaluate_match" ->
                         header_match(prof, unit.name, unit.reg, unit.email)
                  [] unit.classifier = "evaluate_content_match" ->
                         content_match(prof, unit.text)
                  [] unit.classifier = "scan_dataframe_for_values" ->
                         scan_row(prof, unit.cells)
                  [] unit.classifier = "evaluate_text_match" ->
                         scan_document(prof, unit.cells)
           /\ mlists' = IF unit.classifier = "scan_dataframe_for_values"
                        THEN FileRow(mres') ELSE mlists
    /\ UNCHANGED <<margs, notMatchVars>>

-----------------------------------------------------------------------------
(* SpecSenders: the loop or a request alone, over a mailbox whose messages *)
(* come from whitelisted senders and from others. Neither run() nor the    *)
(* check-email request reads the sender's place on the list, so no step    *)
(* of the pipeline depends on listed.                                      *)

\* every message is from a whitelisted sender
IdleSender == listed = [m \in Mids |-> TRUE]

\* sender in CDC_SENDER_WHITELIST or not, for each message of the mailbox
InitSenders == listed \in [Mids -> BOOLEAN]

IdleExtra == IdleScan /\ IdleMatch /\ IdleSender

-----------------------------------------------------------------------------
(* The specifications *)

Init == InitPipe /\ IdleApply /\ IdleLog /\ IdleView /\ IdleStop /\ IdleFuse
          /\ IdleClassify /\ IdleText /\ IdleOverall
          /\ IdleProfile /\ IdleStart /\ IdleExtra

Next ==
    \/ LoopStart \/ LoopSleep \/ LoopBackoff
    \/ RequestStart
    \/ \E p \in Pipelines :
          \/ Poll(p) \/ Process(p) \/ Calendar(p)
          \/ Watermark(p) \/ Write(p)

Spec == Init /\ [][Next]_vars

InitS == InitSolo /\ IdleApply /\ IdleLog /\ IdleView /\ IdleStop /\ IdleFuse
          /\ IdleClassify /\ IdleText /\ IdleOverall
          /\ IdleProfile /\ IdleStart /\ IdleExtra

SpecSolo == InitS /\ [][Next]_vars

InitSd == InitSolo /\ IdleApply /\ IdleLog /\ IdleView /\ IdleStop /\ IdleFuse
          /\ IdleClassify /\ IdleText /\ IdleOverall
          /\ IdleProfile /\ IdleStart /\ IdleScan /\ IdleMatch /\ InitSenders

SpecSenders == InitSd /\ [][Next]_vars

NextStop == Next \/ SetStop \/ LoopInterrupt

SpecStop == InitS /\ [][NextStop]_vars

\* the loop's sleeps return: time.sleep(n) ends after n seconds
SpecLive == InitS /\ [][Next]_vars /\ WF_vars(LoopBackoff) /\ WF_vars(LoopSleep)

InitA == IdlePipe /\ InitApply /\ IdleLog /\ IdleView /\ IdleStop /\ IdleFuse
          /\ IdleClassify /\ IdleText /\ IdleOverall
          /\ IdleProfile /\ IdleStart /\ IdleExtra

NextA == LoadCall \/ ApplyCall

SpecApply == InitA /\ [][NextA]_vars

InitL == IdlePipe /\ IdleApply /\ InitLog /\ IdleView /\ IdleStop /\ IdleFuse
          /\ IdleClassify /\ IdleText /\ IdleOverall
          /\ IdleProfile /\ IdleStart /\ IdleExtra

NextL ==
    \E w \in Writers :
        \/ LogBegin(w) \/ LogAcquire(w) \/ LogAppend(w)
        \/ LogLoad(w) \/ LogStore(w) \/ LogRelease(w)

SpecLog == InitL /\ [][NextL]_vars

InitV == IdlePipe /\ IdleApply /\ InitLog /\ InitView /\ IdleStop /\ IdleFuse
          /\ IdleClassify /\ IdleText /\ IdleOverall
          /\ IdleProfile /\ IdleStart /\ IdleExtra

NextV ==
    \/ \E w \in Writers :
          \/ LogBegin(w) \/ LogAcquire(w) \/ LogAppend(w)
          \/ LogLoad(w) \/ LogStore(w) \/ LogRelease(w)
    \/ ViewerPoll

SpecView == InitV /\ [][NextV]_vars

InitR == IdlePipe /\ IdleApply /\ InitBuffer /\ IdleView /\ IdleStop /\ IdleFuse
          /\ IdleClassify /\ IdleText /\ IdleOverall
          /\ IdleProfile /\ IdleStart /\ IdleExtra

NextR == GetRecentCall

SpecRecent == InitR /\ [][NextR]_vars

InitF == IdlePipe /\ IdleApply /\ IdleLog /\ IdleView /\ IdleStop /\ IdleFuse
          /\ IdleClassify /\ IdleText /\ IdleOverall
          /\ IdleProfile /\ IdleStart /\ IdleExtra

NextF == FuseCall

SpecFuse == InitF /\ [][NextF]_vars

NextFA == FuseAnyCall

SpecFuseAny == InitF /\ [][NextFA]_vars

InitC == IdlePipe /\ IdleApply /\ IdleLog /\ IdleView /\ IdleStop /\ IdleFuse
          /\ InitClassify /\ IdleText /\ IdleOverall
          /\ IdleProfile /\ IdleStart /\ IdleExtra

NextC == ClassifyCall

SpecClassify == InitC /\ [][NextC]_vars

InitT == IdlePipe /\ IdleApply /\ IdleLog /\ IdleView /\ IdleStop /\ IdleFuse
          /\ IdleClassify /\ InitText /\ IdleOverall
          /\ IdleProfile /\ IdleStart /\ IdleExtra

NextT == CompareCall

SpecText == InitT /\ [][NextT]_vars

InitO == IdlePipe /\ IdleApply /\ IdleLog /\ IdleView /\ IdleStop /\ IdleFuse
          /\ IdleClassify /\ IdleText /\ InitOverall
          /\ IdleProfile /\ IdleStart /\ IdleExtra

NextO == OverallCall

SpecOverall == InitO /\ [][NextO]_vars

InitP == IdlePipe /\ IdleApply /\ IdleLog /\ IdleView /\ IdleStop /\ IdleFuse
          /\ IdleClassify /\ IdleText /\ IdleOverall
          /\ InitProfile /\ IdleStart /\ IdleExtra

NextP ==
    \/ \E d \in Displays : ProcessProfile(d)
    \/ \E k \in ProfileKeys, v \in EditValues : UpdateProfile(k, v)

SpecProfile == InitP /\ [][NextP]_vars

InitSt == IdlePipe /\ IdleApply /\ IdleLog /\ IdleView /\ IdleStop /\ IdleFuse
          /\ IdleClassify /\ IdleText /\ IdleOverall
          /\ IdleProfile /\ InitStart /\ IdleExtra

NextSt ==
    \/ \E r \in StartRequests :
          StartArrives(r) \/ StartCheck(r) \/ StartCreate(r) \/ StartThread(r)
    \/ \E t \in Threads : ThreadExits(t)

SpecStart == InitSt /\ [][NextSt]_vars

InitSc == IdlePipe /\ IdleApply /\ IdleLog /\ IdleView /\ IdleStop /\ IdleFuse
          /\ IdleClassify /\ IdleText /\ IdleOverall
          /\ IdleProfile /\ IdleStart /\ InitScan /\ IdleMatch /\ IdleSender

NextSc == ScanStart \/ ScanStep \/ ScanRaises \/ ScanFinish

SpecScan == InitSc /\ [][NextSc]_vars

InitM == IdlePipe /\ IdleApply /\ IdleLog /\ IdleView /\ IdleStop /\ IdleFuse
          /\ IdleClassify /\ IdleText /\ IdleOverall
          /\ IdleProfile /\ IdleStart /\ IdleScan /\ InitMatch /\ IdleSender

NextM == MatchCall

SpecMatch == InitM /\ [][NextM]_vars

-----------------------------------------------------------------------------
(* The properties of the poll loop and the check-email request *)

\* the Match Records a state dict holds for message m, over the three lists
RecordsFor(s, m) ==
    UNION {{<<CategoryKeys[k], i>> : i \in {j \in 1..Len(s[CategoryKeys[k]]) :
                                           s[CategoryKeys[k]][j].message_id = m}} :
           k \in 1..3}

\* C1: in the poll loop no message id ever has a second Match Record in the
\* state's category lists, whatever the inbox shows and whichever iterations
\* fail
C1_OneRecordPerMessage ==
    \A m \in Mids : Cardinality(RecordsFor(st[Loop], m)) <= 1

\* C2: an iteration of the loop in which fetch_full returned ends only by
\* saving the state with last_message_id set to the fetched id, so the save
\* precedes the loop's next fetch even when a later stage raised
C2_WatermarkSavedBeforeNextFetch ==
    [][(/\ pc[Loop] \in {"fetch", "calendar", "watermark", "writing"}
        /\ pc'[Loop] \in {"sleep", "backoff"}
        /\ err'[Loop] # "fetch_full")
       => (/\ pc[Loop] = "writing"
           /\ stateFile' = Json(st[Loop])
           /\ GetLast(st[Loop]) = mid[Loop])]_vars

\* C3: at the moment create_calendar_event raises in the loop, state.json
\* already holds the message's Match Record and its last_message_id is the
\* message's id
C3_DurableWhenCalendarRaises ==
    [][(pc[Loop] = "calendar" /\ pc'[Loop] = "backoff")
       => (/\ stateFile'.kind = "json"
           /\ GetLast(stateFile'.doc) = mid[Loop]
           /\ RecordsFor(stateFile'.doc, mid[Loop]) # {})]_vars

\* C4: when newest_message_id returns the id the state's last_message_id
\* holds, the iteration or request ends at once: the state file, the record
\* files and the calendar calls are as before, and so is the loop's state
C4_SkipChangesNothing ==
    [][\A p \in Pipelines : \A m \in Mids :
          (PollReturns(p, m) /\ m = GetLast(st[p]))
          => (/\ pc'[p] = Rest(p)
              /\ stateFile' = stateFile
              /\ recordFiles' = recordFiles
              /\ calendarCalls' = calendarCalls
              /\ st'[Loop] = st[Loop])]_vars

\* the loop has just skipped an iteration over a state with history: the id
\* it polled is the watermark and nothing was written for it again
C4_Skipped ==
    /\ pc[Loop] = "sleep"
    /\ mid[Loop] # None
    /\ mid[Loop] = GetLast(st[Loop])
    /\ RecordsFor(st[Loop], mid[Loop]) # {}
    /\ recordFiles[mid[Loop]] = 1

\* C14: whatever raises inside an iteration leaves the loop in its exception
\* handler, sleeping longer than the poll interval and no longer than 300
\* seconds, and from there the loop polls again
C14_FailureBacksOffAndResumes ==
    /\ [](err[Loop] # "none" => pc[Loop] = "backoff")
    /\ [](pc[Loop] = "backoff" => (sleeping > poll_seconds /\ sleeping <= 300))
    /\ [](pc[Loop] \in {"off", "start", "poll", "fetch", "calendar", "watermark",
                        "writing", "sleep", "backoff"})
    /\ (pc[Loop] = "backoff" ~> pc[Loop] = "poll")

\* the loop is backing off after create_calendar_event raised for a message
\* it had fetched
C14_BackingOff ==
    /\ pc[Loop] = "backoff"
    /\ err[Loop] = "create_calendar_event"
    /\ sleeping = 60

\* C15: once the stop signal is set the loop does not go from a sleep to
\* another poll, and the loop stops only between iterations, never in the
\* middle of one
C15_StopsBetweenIterations ==
    [][/\ (runner_stop /\ pc[Loop] \in {"sleep", "backoff"}) => pc'[Loop] # "poll"
       /\ (pc[Loop] # "stopped" /\ pc'[Loop] = "stopped")
          => pc[Loop] \in {"sleep", "backoff"}]_vars

\* C5: whoever loads state.json finds a complete content, never a file that
\* a save has emptied and not yet written
C5_ReadersSeeCompleteFile ==
    [][(LoopStart \/ RequestStart) => stateFile.kind # "partial"]_vars

\* the Match Records of a JSON object, each with the list that holds it
RecordsIn(d) ==
    UNION {{<<CategoryKeys[k], d[CategoryKeys[k]][i]>> : i \in 1..Len(d[CategoryKeys[k]])} :
           k \in 1..3}

\* C6: a save that completes leaves in state.json every Match Record of the
\* content it replaces, except records of a category list that is full
C6_SaveKeepsPersistedRecords ==
    [][(stateFile.kind = "partial" /\ stateFile'.kind = "json")
       => \A r \in RecordsIn(stateFile.doc) :
             \/ r \in RecordsIn(stateFile'.doc)
             \/ Len(stateFile'.doc[r[1]]) = Cap]_vars

\* C21: create_calendar_event is called for a message only by a pipeline
\* whose overall_match_type for that message is CONFIRMED_MATCH
C21_CalendarOnlyForConfirmed ==
    [][\A m \in Mids :
          calendarCalls'[m] # calendarCalls[m]
          => \E p \in Pipelines : mid[p] = m /\ verdict[p] = "CONFIRMED_MATCH"]_vars

\* create_calendar_event has returned for a confirmed message
C21_EventRequested ==
    \E p \in Pipelines :
        /\ pc[p] = "watermark"
        /\ verdict[p] = "CONFIRMED_MATCH"
        /\ calendarCalls[mid[p]] = 1

\* a message with a weaker match has gone on to the watermark with its record
\* file written and no call made for it
C21_NoEventForWeakerMatch ==
    \E p \in Pipelines :
        /\ pc[p] = "watermark"
        /\ verdict[p] \in {"POSSIBILITY", "PARTIAL_MATCH"}
        /\ recordFiles[mid[p]] = 1
        /\ calendarCalls[mid[p]] = 0

\* C22: with the loop the only writer, whenever the loop sleeps between two
\* iterations (time.sleep(poll_seconds) or the handler's backoff sleep),
\* what load_state reads from state.json equals the loop's in-memory state
C22_PersistedEqualsMemoryWhileSleeping ==
    (pc[Request] = "off" /\ pc[Loop] \in {"sleep", "backoff"})
    => load_state(stateFile) = st[Loop]

\* C23: when newest_message_id, fetch_full or the attachment fetch of an
\* iteration fails, the iteration ends there with no record file written for
\* the message, and no iteration whose attachment fetch failed goes on to set
\* the watermark to the message's id
C23_MailFailureLeavesMessageUnprocessed ==
    [][\A p \in Pipelines :
          /\ (PollRaises(p) \/ FetchRaises(p) \/ Fetched(p, "failed"))
             => (pc'[p] = Caught(p) /\ recordFiles' = recordFiles)
          /\ Watermark(p) => attach[p] # "failed"]_vars

\* C24: however the loop and check-email requests interleave, no message id
\* has create_calendar_event called for it twice or a second record file
\* written for it
C24_OneEventAndOneFilePerMessage ==
    \A m \in Mids : calendarCalls[m] <= 1 /\ recordFiles[m] <= 1

\* C26: once a message's overall_match_type is computed, a record file is
\* written for it, and update_state_with_match is called for it, exactly when
\* the type is not NO_MATCH; a NO_MATCH message leaves the pipeline's state
\* as it was up to the watermark step, which changes last_message_id only
C26_PersistedIffMatched ==
    [][\A p \in Pipelines :
          /\ \A got \in {"fetched", "failed"} :
                Fetched(p, got)
                => IF pc'[p] = "watermark" /\ verdict'[p] = "NO_MATCH"
                   THEN recordFiles' = recordFiles /\ st'[p] = st[p]
                   ELSE /\ recordFiles' = [recordFiles EXCEPT ![mid[p]] = @ + 1]
                        /\ \E v \in Verdicts \ {"NO_MATCH"} :
                              LET r == update_state_with_match(st[p], mid[p], v, now)
                              IN  IF r.raised THEN pc'[p] = Caught(p)
                                  ELSE verdict'[p] = v /\ st'[p] = r.state
          /\ (Watermark(p) /\ verdict[p] = "NO_MATCH")
             => /\ recordFiles' = recordFiles
                /\ \A k \in 1..3 : st'[p][CategoryKeys[k]] = st[p][CategoryKeys[k]]
                /\ st'[p].last_message_id = mid[p]]_vars

\* a NO_MATCH message is about to be saved: the watermark is its id and no
\* record file exists for it
C26_UnmatchedMessageSaved ==
    \E p \in Pipelines :
        /\ pc[p] = "writing"
        /\ verdict[p] = "NO_MATCH"
        /\ GetLast(st[p]) = mid[p]
        /\ recordFiles[mid[p]] = 0
        /\ RecordsFor(st[p], mid[p]) = {}

\* a message that matched has its record file and its Match Record
C26_MatchedMessageApplied ==
    \E p \in Pipelines :
        /\ pc[p] = "watermark"
        /\ verdict[p] = "POSSIBILITY"
        /\ recordFiles[mid[p]] = 1
        /\ RecordsFor(st[p], mid[p]) # {}

\* the external calls of an iteration: the two Gmail calls and the calendar
ExternalCalls == {"newest_message_id", "fetch_full", "create_calendar_event"}

\* C31: the loop processes the newest message once the external calls
\* succeed: an iteration ends in the exception handler, with the watermark
\* and the record unsaved and the message left for the next iteration, only
\* when one of its external calls failed
C31_OnlyExternalFailureDelays ==
    pc[Loop] = "backoff" => err[Loop] \in ExternalCalls

-----------------------------------------------------------------------------
(* The properties of the state store *)

\* the entries the calls number from..to of a run add, in call order
Applied(from, to) ==
    [i \in 1..(to - from + 1) |->
        MatchEntry(MessageOfCall(from + i - 1), from + i - 1)]

\* C7: after any apply each category list has at most 100 entries, and after
\* more than 100 applies of one category to an empty list that list is the
\* 100 entries applied last, in the order they were applied
C7_RetentionCap ==
    (aloaded /\ acount > 0 /\ ~aargs.raised)
    => /\ \A k \in 1..3 : Len(astate[CategoryKeys[k]]) <= Cap
       /\ (amode \in Verdicts /\ acount > Cap)
          => \E k \in 1..3 :
                /\ astate[CategoryKeys[k]] = Applied(acount - Cap + 1, acount)
                /\ \A j \in (1..3) \ {k} : astate[CategoryKeys[j]] = <<>>

\* more applies of one category than the cap, so entries were evicted twice
C7_Evicted ==
    /\ amode = "POSSIBILITY"
    /\ acount = Cap + 2
    /\ Len(astate.possibilities) = Cap

\* the files that hold a Processing State
HoldsState(file) == file.kind = "json" /\ Usable(file.doc)

\* C8: load_state returns a usable Processing State: the one the file holds,
\* or the fresh empty state when the file is absent, corrupt or malformed
C8_LoadReturnsUsableState ==
    (aloaded /\ acount = 0)
    => /\ Usable(astate)
       /\ astate = IF HoldsState(afile) THEN afile.doc ELSE DefaultState

\* s is the last Len(s) entries of t
IsSuffix(s, t) ==
    /\ Len(s) <= Len(t)
    /\ \A i \in 1..Len(s) : s[i] = t[Len(t) - Len(s) + i]

\* the category list a verdict names in the state
ListNamedBy(match_type) ==
    IF match_type = "CONFIRMED_MATCH" THEN "confirmed_matches"
    ELSE IF match_type = "POSSIBILITY" THEN "possibilities"
    ELSE IF match_type = "PARTIAL_MATCH" THEN "partial_matches"
    ELSE "none"

\* C9: an apply leaves last_message_id alone; the list its verdict names ends
\* with the new record after the most recent earlier ones, 100 at most in all;
\* every other list, and every list when the verdict is NO_MATCH, is what it
\* was, cut to its most recent 100
C9_ApplyFrame ==
    (aloaded /\ acount > 0 /\ ~aargs.raised)
    => /\ astate.last_message_id = aprev.last_message_id
       /\ astate.keys = aprev.keys
       /\ \A k \in 1..3 :
             LET key == CategoryKeys[k]
                 old == aprev[key]
                 new == astate[key]
             IN  IF key = ListNamedBy(aargs.match_type)
                 THEN /\ Len(new) = Min(Len(old) + 1, Cap)
                      /\ new[Len(new)] = MatchEntry(aargs.message_id, aargs.timestamp)
                      /\ IsSuffix(SubSeq(new, 1, Len(new) - 1), old)
                 ELSE /\ Len(new) = Min(Len(old), Cap)
                      /\ IsSuffix(new, old)

\* a POSSIBILITY applied to a state whose possibilities list was full: the
\* record is appended and the oldest entry evicted
C9_AppendedToFullList ==
    /\ acount > 0
    /\ ~aargs.raised
    /\ aargs.match_type = "POSSIBILITY"
    /\ Len(aprev.possibilities) = Cap
    /\ Len(aprev.confirmed_matches) = Cap - 1

-----------------------------------------------------------------------------
(* The properties of the log stream *)

\* C10: the ids in the buffer are distinct and increase by one from each
\* entry to the next, and once a log() call has released the lock the next
\* id to assign is one more than the newest entry's
C10_IdsIncreaseByOne ==
    /\ \A i \in 1..(Len(buffer) - 1) : buffer[i + 1][1] = buffer[i][1] + 1
    /\ Cardinality({buffer[i][1] : i \in 1..Len(buffer)}) = Len(buffer)
    /\ (lock = "free" /\ buffer # <<>>) => next_id = buffer[Len(buffer)][1] + 1

\* both callers have appended to a full buffer and one is waiting for the
\* lock the other holds
C10_Contended ==
    /\ Len(buffer) = BufferMaxlen
    /\ \E i, j \in (BufferMaxlen - 2)..BufferMaxlen :
          buffer[i][2] = "w1" /\ buffer[j][2] = "w2"
    /\ \E w, v \in Writers : lock = w /\ lpc[v] = "acquire"

\* C11: the ids a viewer receives over its polls are consecutive: each is
\* one more than the one before, so no entry is skipped and none comes twice
C11_ViewerGetsEveryEntryOnce ==
    \A i \in 1..(Len(vgot) - 1) : vgot[i + 1] = vgot[i] + 1

\* the buffered entries a call with this since_id asks for
Qualifying(since_id) ==
    SelectSeq(buffer, LAMBDA item : since_id = Nothing \/ item[1] > since_id[1])

\* C12: get_recent returns buffered entries with id above since_id in buffer
\* order, the most recent limit of them when more qualify and never more than
\* limit (none for a limit below one), all of them when no limit is given
C12_GetRecentResult ==
    gargs.called
    => /\ IsSuffix(gres, Qualifying(gargs.since_id))
       /\ Len(gres) = IF gargs.limit = Nothing
                      THEN Len(Qualifying(gargs.since_id))
                      ELSE Min(IF gargs.limit[1] > 0 THEN gargs.limit[1] ELSE 0,
                               Len(Qualifying(gargs.since_id)))

\* C13: the buffer never holds more than 1000 entries; they are the entries
\* logged last, oldest first: when the newest id is n the buffer holds the ids
\* n - 999 .. n (1 .. n while fewer than 1000 have been logged)
C13_BufferHoldsMostRecent ==
    /\ Len(buffer) <= BufferMaxlen
    /\ buffer # <<>>
       => LET newest == buffer[Len(buffer)][1]
          IN  /\ newest \in {next_id - 1, next_id}
              /\ Len(buffer) = Min(newest, BufferMaxlen)
              /\ \A i \in 1..Len(buffer) : buffer[i][1] = newest - Len(buffer) + i

\* log() calls on a full buffer have evicted its oldest entries
C13_OldestEvicted ==
    /\ Len(buffer) = BufferMaxlen
    /\ buffer[1][1] = 3
    /\ buffer[BufferMaxlen][2] # "old"
    /\ buffer[BufferMaxlen - 1][2] # "old"

-----------------------------------------------------------------------------
(* The properties of the verdicts *)

\* the order of the verdicts, strongest first
Strength(v) ==
    CASE v = "CONFIRMED_MATCH" -> 0
      [] v = "POSSIBILITY" -> 1
      [] v = "PARTIAL_MATCH" -> 2
      [] v = "NO_MATCH" -> 3

\* the arguments of the last call that are not falsy
Given == {fargs[i] : i \in {j \in 1..Len(fargs) : fargs[j] # ""}}

\* C16: best returns the strongest verdict among its non-falsy arguments and
\* NO_MATCH when there is none; so best(v, NO_MATCH) = v
C16_FuseReturnsStrongest ==
    /\ Given = {} => fres = "NO_MATCH"
    /\ Given # {} => (fres \in Given /\ \A v \in Given : Strength(fres) <= Strength(v))
    /\ (Len(fargs) = 2 /\ fargs[2] = "NO_MATCH" /\ fargs[1] # "") => fres = fargs[1]

\* best of a falsy argument, a weak verdict and NO_MATCH
C16_FalsyDropped ==
    /\ fargs = <<"", "PARTIAL_MATCH", "NO_MATCH">>
    /\ fres = "PARTIAL_MATCH"

\* the arguments of the last call in every order
Reorderings ==
    {[i \in 1..Len(fargs) |-> fargs[f[i]]] :
        f \in {g \in [1..Len(fargs) -> 1..Len(fargs)] :
                  \A i, j \in 1..Len(fargs) : i # j => g[i] # g[j]}}

\* C17: every order of the arguments gives the same result, and so does
\* fusing a first part of them, then fusing that result with the rest, or
\* with the fused rest
C17_FuseOrderIndependent ==
    \A args \in Reorderings :
       /\ best(args) = fres
       /\ \A k \in 1..(Len(args) - 1) :
             LET head == SubSeq(args, 1, k)
                 rest == SubSeq(args, k + 1, Len(args))
             IN  /\ best(<<best(head)>> \o rest) = fres
                 /\ best(<<best(head), best(rest)>>) = fres
                 /\ best(head \o <<best(rest)>>) = fres

\* three different verdicts given weakest first
C17_ThreeVerdicts ==
    /\ fargs = <<"NO_MATCH", "PARTIAL_MATCH", "CONFIRMED_MATCH">>
    /\ fres = "CONFIRMED_MATCH"

C18_OneDecisionTable ==
    cres # ""
    => LET named == cargs.name
           identified == cargs.reg \/ cargs.gmail \/ cargs.personal
       IN  /\ (named /\ identified) => cres = "CONFIRMED_MATCH"
           /\ (named /\ ~identified) => cres = "POSSIBILITY"
           /\ (~named /\ identified) => cres = "PARTIAL_MATCH"
           /\ (~named /\ ~identified) => cres = "NO_MATCH"

\* a row whose cells match the name and nothing else
C18_RowWithNameOnly ==
    /\ cargs.classifier = "evaluate_row_match_flexible"
    /\ cargs.name /\ ~cargs.reg /\ ~cargs.gmail /\ ~cargs.personal
    /\ cres = "POSSIBILITY"

\* ws is a subsequence of us
RECURSIVE IsSubsequence(_, _)
IsSubsequence(ws, us) ==
    IF ws = <<>> THEN TRUE
    ELSE IF us = <<>> THEN FALSE
    ELSE IF Head(ws) = Head(us) THEN IsSubsequence(Tail(ws), Tail(us))
    ELSE IsSubsequence(ws, Tail(us))

\* C19: text_contains_name(text, name) is true exactly when the name has a
\* word and its words, case-insensitively, are a subsequence of the words of
\* the text
C19_SubsequenceOfWords ==
    (targs.fn = "text_contains_name" /\ tres # Nothing)
    => tres = Some(/\ Words(targs.y) # <<>>
                   /\ IsSubsequence(Words(Lower(targs.y)), Words(Lower(targs.x))))

\* the two strings are equal when case is ignored
SameIgnoringCase(x, y) == Lower(x) = Lower(y)

\* C20: in header mode, for non-empty inputs, the name matches exactly when
\* the two names are equal ignoring case or every word of the profile name is
\* a word of the parsed name; the registration code and the address match
\* exactly when they equal the parsed code and the sender address ignoring
\* case
C20_HeaderComparisons ==
    tres # Nothing
    => LET given == targs.x # <<>> /\ targs.y # <<>>
       IN  /\ targs.fn = "check_name_match"
                => tres = Some(/\ given
                               /\ \/ SameIgnoringCase(targs.x, targs.y)
                                  \/ WordSet(Lower(targs.x)) \subseteq WordSet(Lower(targs.y)))
           /\ targs.fn = "reg_match"
                => tres = Some(given /\ SameIgnoringCase(targs.x, targs.y))
           /\ targs.fn = "check_email_match"
                => tres = Some(given /\ SameIgnoringCase(targs.x, targs.y))

\* C25: the overall_match_type of a message is what best() returns for its
\* header, content and attachment verdicts, in the loop and in check-email
\* alike; the attachments' verdict counts whatever the other two are
C25_OverallIsFusedVerdict ==
    ores # "" => ores = best(<<oargs.h, oargs.c, oargs.a>>)

\* the loop's header verdict is a POSSIBILITY and the attachments confirm
C25_AttachmentsUpgrade ==
    /\ oargs.p = Loop
    /\ oargs.h = "POSSIBILITY" /\ oargs.c = "NO_MATCH" /\ oargs.a = "CONFIRMED_MATCH"
    /\ ores = "CONFIRMED_MATCH"

-----------------------------------------------------------------------------
(* The properties of the profile *)

\* C27: no save of the profile by the loop puts back, under a key that a
\* profile edit has set, the value that the edit replaced
C27_EditNeverReverted ==
    [][\A d \in Displays :
          ProcessProfile(d)
          => \A k \in ProfileKeys :
                (pbefore[k] # Nothing /\ profileFile'[k] # profileFile[k])
                => profileFile'[k] # pbefore[k][1]]_vars

\* C29: when the loop takes a message through its profile step, a non-empty
\* name of its profile stays as it is and an empty name becomes the sender's
\* parsed name if that is non-empty, and likewise the registration number;
\* a save writes exactly that profile to profile.json
C29_BackfillWritesOnce ==
    [][\A d \in Displays :
          ProcessProfile(d)
          => LET parsed == split_name_and_reg(d)
             IN  /\ profile.name # "" => profile'.name = profile.name
                 /\ (profile.name = "" /\ parsed.name # "")
                    => profile'.name = parsed.name
                 /\ profile.registration_number # ""
                    => profile'.registration_number = profile.registration_number
                 /\ (profile.registration_number = "" /\ parsed.reg # "")
                    => profile'.registration_number = parsed.reg
                 /\ profileFile' = IF psaves' # psaves THEN profile'
                                   ELSE profileFile]_vars

\* the name was filled in from one sender and a message from another sender
\* has been processed since
C29_FilledThenKept ==
    /\ pmsgs >= 2
    /\ psaves >= 2
    /\ profile.name = "Sam"
    /\ profileFile.name = "Sam"
    /\ profile.gmail_display_name = "Lee"

\* C30: the loop's profile step changes no key of the profile other than an
\* empty name or an empty registration number, and calls save_profile only
\* when it filled one of the two in
C30_OnlyBackfillTouchesProfile ==
    [][\A d \in Displays :
          ProcessProfile(d)
          => /\ \A k \in ProfileKeys :
                   profile'[k] # profile[k]
                   => (k \in {"name", "registration_number"} /\ profile[k] = "")
             /\ psaves' # psaves
                => \E k \in {"name", "registration_number"} :
                      profile[k] = "" /\ profile'[k] # ""]_vars

-----------------------------------------------------------------------------
(* The properties of the runner's start *)

\* C28: whatever start requests arrive and however their handlers interleave,
\* at most one runner thread is alive
C28_AtMostOneRunnerThread ==
    Cardinality({t \in Threads : thread[t] = "alive"}) <= 1

-----------------------------------------------------------------------------
(* The properties of the attachment scan *)

\* the verdicts other than NO_MATCH carried by some row of a table or by
\* some document among the attachments
VerdictsFound ==
    {v \in Verdicts \ {"NO_MATCH"} :
        \E i \in 1..Len(atts) :
            \/ atts[i].kind = "pdf" /\ atts[i].match_type = v
            \/ /\ atts[i].kind = "table"
               /\ \/ v = "CONFIRMED_MATCH" /\ atts[i].c > 0
                  \/ v = "POSSIBILITY" /\ atts[i].p > 0
                  \/ v = "PARTIAL_MATCH" /\ atts[i].q > 0}

RECURSIVE SumSeq(_)
SumSeq(q) == IF q = <<>> THEN 0 ELSE Head(q) + SumSeq(Tail(q))

\* the matches of verdict v that attachment a carries: its rows of that
\* category, or 1 for a document of that verdict
Carried(a, v) ==
    CASE a.kind = "table" -> (CASE v = "CONFIRMED_MATCH" -> a.c
                                [] v = "POSSIBILITY" -> a.p
                                [] v = "PARTIAL_MATCH" -> a.q)
      [] a.kind = "pdf" /\ a.match_type = v -> 1
      [] OTHER -> 0

Corrupt == {"badtable", "badpdf"}

\* C33: the turn of the loop for an attachment that fails to parse appends
\* an error result, adds one to summary.errors, changes no other count of
\* the summary and leaves the loop running; and when the loop is over every
\* attachment has its result and the summary counts the matches of all the
\* attachments that parsed
C33_ParseFailureIsolated ==
    [][/\ (ScanStep /\ atts[ai + 1].kind \in Corrupt)
          => /\ results'.summary = [results.summary EXCEPT !.errors = @ + 1]
             /\ Len(results'.parsing_results) = Len(results.parsing_results) + 1
             /\ results'.parsing_results[Len(results'.parsing_results)].error
             /\ results'.parsing_results[Len(results'.parsing_results)].match_type
                  \notin Verdicts
             /\ apc' = "loop" /\ ai' = ai + 1
       /\ apc' = "returned"
          => /\ Len(results'.parsing_results) = Len(atts)
             /\ results'.summary =
                  [confirmed_matches |->
                       SumSeq([i \in 1..Len(atts) |-> Carried(atts[i], "CONFIRMED_MATCH")]),
                   possibilities |->
                       SumSeq([i \in 1..Len(atts) |-> Carried(atts[i], "POSSIBILITY")]),
                   partial_matches |->
                       SumSeq([i \in 1..Len(atts) |-> Carried(atts[i], "PARTIAL_MATCH")]),
                   errors |-> Cardinality({i \in 1..Len(atts) :
                                              atts[i].kind \in Corrupt})]]_vars

\* a file that fails to parse, then a table with a confirmed row
C33_SiblingStillCounted ==
    /\ apc = "returned"
    /\ Len(atts) = 2
    /\ atts[1].kind = "badtable"
    /\ atts[2].kind = "table" /\ atts[2].c = 1
    /\ results.summary.errors = 1
    /\ results.overall_match_type = "CONFIRMED_MATCH"

\* C34: the turn of the loop for an attachment of an unsupported type
\* appends a result with parser_used none and match_type UNSUPPORTED, which
\* is none of the verdicts, and changes neither the summary nor
\* parsed_attachments nor overall_match_type; when the loop is over
\* parsed_attachments counts the other attachments only
C34_UnsupportedContributesNothing ==
    [][/\ (ScanStep /\ atts[ai + 1].kind = "other")
          => /\ results'.parsing_results =
                  Append(results.parsing_results,
                         [parser_used |-> "none", error |-> TRUE,
                          match_type |-> "UNSUPPORTED"])
             /\ "UNSUPPORTED" \notin Verdicts
             /\ results'.summary = results.summary
             /\ results'.parsed_attachments = results.parsed_attachments
             /\ results'.overall_match_type = results.overall_match_type
       /\ apc' = "returned"
          => results'.parsed_attachments =
               Cardinality({i \in 1..Len(atts) : atts[i].kind # "other"})]_vars

\* a file of an unsupported type, then a document that is a possibility
C34_UnsupportedThenDocument ==
    /\ apc = "returned"
    /\ Len(atts) = 2
    /\ atts[1].kind = "other"
    /\ atts[2].kind = "pdf"
    /\ results.total_attachments = 2
    /\ results.parsed_attachments = 1
    /\ results.overall_match_type = "POSSIBILITY"

\* C38: whichever way parse_email_attachments returns, overall_match_type is
\* the verdict its summary implies, and parsed_attachments does not exceed
\* total_attachments
C38_OverallFollowsSummary ==
    apc \in {"returned", "caught"}
    => /\ results.overall_match_type =
            (IF results.summary.confirmed_matches > 0 THEN "CONFIRMED_MATCH"
             ELSE IF results.summary.possibilities > 0 THEN "POSSIBILITY"
             ELSE IF results.summary.partial_matches > 0 THEN "PARTIAL_MATCH"
             ELSE "NO_MATCH")
       /\ results.parsed_attachments <= results.total_attachments

-----------------------------------------------------------------------------
(* The properties of the sender allow-list                                 *)

\* C39: a fetched message whose sender is not on the whitelist goes on to
\* the watermark without the remaining stages: its attachments are not
\* scanned, no record file is written and no calendar call is prepared.
C39_UnlistedSenderSkipped ==
    [][\A p \in Pipelines :
          (pc[p] = "fetch" /\ mid[p] # None /\ ~listed[mid[p]])
              => /\ attach'[p] = "none"
                 /\ recordFiles' = recordFiles
                 /\ calendarCalls' = calendarCalls
                 /\ pc'[p] # "calendar"]_vars

-----------------------------------------------------------------------------
(* The properties of the classifiers                                       *)

\* the profile of a candidate who filled in nothing
EmptyProfile ==
    [name |-> <<>>, registration_number |-> <<>>,
     gmail_address |-> <<>>, personal_email |-> <<>>]

\* C35: with every field of the profile absent or empty, each of the four
\* classifiers answers NO_MATCH for whatever header, text, row or document
\* it is given, and a scanned row is filed in no category list.
C35_EmptyProfileNeverMatches ==
    (mres # "" /\ margs.profile = EmptyProfile)
        => /\ mres = "NO_MATCH"
           /\ mlists = FileRow("NO_MATCH")

\* a text was classified against the empty profile
C35_TextAgainstEmptyProfile ==
    /\ mres = "NO_MATCH"
    /\ margs.profile = EmptyProfile
    /\ margs.unit.classifier = "evaluate_content_match"
    /\ margs.unit.text # <<>>

\* the cell alone is a match for the profile
CellMatches(prof, cell) == matching_cells(prof, <<cell>>) # {}

\* the row without its i-th cell
WithoutCell(cells, i) == SubSeq(cells, 1, i - 1) \o SubSeq(cells, i + 1, Len(cells))

\* C37: a scanned row with a name cell matching the profile's name and a
\* cell holding the profile's registration code is CONFIRMED_MATCH whatever
\* else it holds; a cell that matches nothing in the profile does not change
\* the row's verdict; and the row is in at most one category list, the one of
\* its verdict.
C37_RowVerdictIgnoresUnrelatedCells ==
    (mres # "" /\ margs.unit.classifier = "scan_dataframe_for_values")
        => LET prof == margs.profile
               cells == margs.unit.cells
               idx == 1..Len(cells)
           IN  /\ (\E i, j \in idx :
                      /\ cells[i].type = "name" /\ CellMatches(prof, cells[i])
                      /\ cells[j].type = "registration"
                      /\ CellMatches(prof, cells[j]))
                   => mres = "CONFIRMED_MATCH"
               /\ \A i \in idx :
                      ~CellMatches(prof, cells[i])
                          => scan_row(prof, WithoutCell(cells, i)) = mres
               /\ mlists.confirmed_matches + mlists.possibilities
                      + mlists.partial_matches <= 1
               /\ mlists.confirmed_matches = 1 <=> mres = "CONFIRMED_MATCH"
               /\ mlists.possibilities = 1 <=> mres = "POSSIBILITY"
               /\ mlists.partial_matches = 1 <=> mres = "PARTIAL_MATCH"

\* a row of a matching name, a matching code and an address of someone else
\* was scanned and confirmed
C37_ConfirmedBesideUnrelatedCell ==
    /\ mres = "CONFIRMED_MATCH"
    /\ margs.unit.classifier = "scan_dataframe_for_values"
    /\ \E i \in 1..Len(margs.unit.cells) :
           ~CellMatches(margs.profile, margs.unit.cells[i])
    /\ mlists.confirmed_matches = 1

====
